---- MODULE Spec2Model ----
(***************************************************************************)
(* Bell-LaPadula mandatory access control (MAC-BLP).                       *)
(*                                                                         *)
(* The model follows the Python sources:                                   *)
(*   security_monitor.py  the policy engine (pure functions)               *)
(*   access_manager.py    the access mediator (one action per request)     *)
(*   audit.py             log_event, the audit sink                        *)
(*   auth.py, user_manager.py, database.py   users and their levels        *)
(*                                                                         *)
(* The SQLite tables are functions from row ids to records.  A Python      *)
(* None is the 1-tuple <<"None">>, True / False are <<"True">> and         *)
(* <<"False">>, so that every return value is a tuple of strings.          *)
(***************************************************************************)
EXTENDS Integers, Sequences, FiniteSets, TLC

VARIABLES
    users,           \* table users:   id -> row
    objects,         \* table objects: id -> row
    next_object_id,  \* AUTOINCREMENT counter of table objects
    audit_logs,      \* table audit_logs, in insertion order
    calls,           \* number of requests handled so far
    call,            \* the last call: its arguments, the rows it loaded, the faults it met
    ret,             \* value returned by the last call
    pre,             \* history: the tables as they were when the last call began
    hist,            \* history: the calls before the last one, with what they returned
    pol              \* inputs and results of the policy engine (SpecPolicy)

vars == <<users, objects, next_object_id, audit_logs, calls, call, ret, pre, hist, pol>>

dbvars == <<users, objects, next_object_id, audit_logs, calls, call, ret, pre, hist>>

-----------------------------------------------------------------------------
(* Bounds of the model *)

\* object ids 1..MaxObjects can be allocated; MaxObjects + 1 never resolves
MaxObjects == 1

\* requests handled in one run of the program
MaxCalls == 1

\* policy inputs range over -LevelMargin .. 3 + LevelMargin
LevelMargin == 1

\* user names that can be registered; "admin" is taken by init_database
Usernames == {"admin", "alice"}

Contents == {"c0", "c1"}

ObjectNames == {"doc"}

-----------------------------------------------------------------------------
(* config.py *)

SECURITY_LEVELS ==
    (0 :> "Public") @@ (1 :> "Confidential") @@ (2 :> "Secret") @@ (3 :> "Top Secret")

\* dict.get(level, "Unknown")
LevelName(level) ==
    IF level \in DOMAIN SECURITY_LEVELS THEN SECURITY_LEVELS[level] ELSE "Unknown"

-----------------------------------------------------------------------------
(* security_monitor.py *)

\* check_read_access with a strict comparison
check_read_access_strict(user_level, object_level) ==
    IF user_level \notin DOMAIN SECURITY_LEVELS \/ object_level \notin DOMAIN SECURITY_LEVELS
    THEN FALSE
    ELSE user_level > object_level

check_read_access(user_level, object_level) ==
    IF user_level \notin DOMAIN SECURITY_LEVELS \/ object_level \notin DOMAIN SECURITY_LEVELS
    THEN FALSE
    ELSE user_level >= object_level

\* check_write_access without the guard on the level set
check_write_access_unguarded(user_level, object_level) ==
    user_level <= object_level

check_write_access(user_level, object_level) ==
    IF user_level \notin DOMAIN SECURITY_LEVELS \/ object_level \notin DOMAIN SECURITY_LEVELS
    THEN FALSE
    ELSE user_level <= object_level

\* check_delete_access where ownership alone is sufficient
check_delete_access_owner_suffices(user_level, object_level, is_owner, is_super_admin) ==
    IF is_super_admin /\ user_level = 3
    THEN TRUE
    ELSE IF is_owner
         THEN TRUE
         ELSE FALSE

check_delete_access(user_level, object_level, is_owner, is_super_admin) ==
    IF is_super_admin /\ user_level = 3
    THEN TRUE
    ELSE IF is_owner /\ user_level = object_level
         THEN TRUE
         ELSE FALSE

\* validate_security_level that accepts every integer
validate_security_level_any_integer(level) ==
    level \in Int

can_view_object_existence(user_level, object_level) ==
    user_level >= object_level

validate_security_level(level) ==
    level \in DOMAIN SECURITY_LEVELS

\* get_access_description with the denial texts cut before the rule's name
get_access_description_without_rule(user_level, object_level, action) ==
    IF action = "read"
    THEN IF user_level >= object_level
         THEN <<"READ granted: ", LevelName(user_level), " can read ",
                LevelName(object_level)>>
         ELSE <<"READ denied: ", LevelName(user_level), " cannot read ",
                LevelName(object_level)>>
    ELSE IF action = "write"
    THEN IF user_level <= object_level
         THEN <<"WRITE granted: ", LevelName(user_level), " can write to ",
                LevelName(object_level)>>
         ELSE <<"WRITE denied: ", LevelName(user_level), " cannot write to ",
                LevelName(object_level)>>
    ELSE <<"Unknown action">>

\* the f-strings, as the tuple of their pieces
\* get_access_description whose comparisons leave out equal levels
get_access_description_strict(user_level, object_level, action) ==
    IF action = "read"
    THEN IF user_level > object_level
         THEN <<"READ granted: ", LevelName(user_level), " can read ",
                LevelName(object_level)>>
         ELSE <<"READ denied: ", LevelName(user_level), " cannot read ",
                LevelName(object_level), " (No Read Up)">>
    ELSE IF action = "write"
    THEN IF user_level < object_level
         THEN <<"WRITE granted: ", LevelName(user_level), " can write to ",
                LevelName(object_level)>>
         ELSE <<"WRITE denied: ", LevelName(user_level), " cannot write to ",
                LevelName(object_level), " (No Write Down)">>
    ELSE <<"Unknown action">>

get_access_description(user_level, object_level, action) ==
    IF action = "read"
    THEN IF user_level >= object_level
         THEN <<"READ granted: ", LevelName(user_level), " can read ",
                LevelName(object_level)>>
         ELSE <<"READ denied: ", LevelName(user_level), " cannot read ",
                LevelName(object_level), " (No Read Up)">>
    ELSE IF action = "write"
    THEN IF user_level <= object_level
         THEN <<"WRITE granted: ", LevelName(user_level), " can write to ",
                LevelName(object_level)>>
         ELSE <<"WRITE denied: ", LevelName(user_level), " cannot write to ",
                LevelName(object_level), " (No Write Down)">>
    ELSE <<"Unknown action">>

-----------------------------------------------------------------------------
(* Return values *)

None == <<"None">>

True == <<"True">>

False == <<"False">>

\* ret before any call
NoCall == <<"no call">>

\* SQL NULL in audit_logs.object_id (log_event's object_id=None)
NoObject == 0

\* message of the exception a failing INSERT / UPDATE / DELETE raises
StorageError == "database is locked"

PolIdle == [phase |-> "idle"]

-----------------------------------------------------------------------------
(* database.py *)

UserIds == 1..(Cardinality(Usernames) + 1)

ObjectIds == 1..(MaxObjects + 1)

\* cursor.fetchone(): the 1-tuple of the row, or the empty tuple for None
fetchone(table, id) ==
    IF id \in DOMAIN table THEN <<table[id]>> ELSE << >>

\* A row of users / objects as the program writes them
UserRows(username, super) ==
    [username : {username}, security_level : DOMAIN SECURITY_LEVELS,
     is_active : IF super THEN {TRUE} ELSE BOOLEAN, is_super_admin : {super}]

ObjectRows(owners) ==
    [name : ObjectNames, content : Contents,
     security_level : DOMAIN SECURITY_LEVELS, owner_id : owners]

\* the users tables earlier runs can have left: the default super admin
\* (init_database) at the level it gave itself, then the registered users
\* in the order of their ids, each at the level the super admin gave them
UserTables ==
    LET admin == UserRows("admin", TRUE)
        alice == UserRows("alice", FALSE)
    IN  {(1 :> a) : a \in admin} \cup {(1 :> a) @@ (2 :> b) : a \in admin, b \in alice}

\* the objects tables earlier runs can have left for a given users table:
\* ids below the AUTOINCREMENT counter, some of them deleted again
ObjectTables(owners, next) ==
    UNION {[ids -> ObjectRows(owners)] : ids \in SUBSET (1..(next - 1))}

\* the three tables and the AUTOINCREMENT counter, as one value
Tables ==
    [users |-> users, objects |-> objects, next_object_id |-> next_object_id,
     audit_logs |-> audit_logs]

\* init_database keeps the rows of an existing file (CREATE TABLE IF NOT
\* EXISTS, the default admin only when users is empty): the program starts
\* on any database earlier runs left behind, the fresh one included
Init ==
    /\ users \in UserTables
    /\ next_object_id \in 1..(MaxObjects + 1)
    /\ objects \in ObjectTables(DOMAIN users, next_object_id)
    /\ audit_logs = << >>
    /\ calls = 0
    /\ call = [op |-> "none"]
    /\ ret = NoCall
    /\ pre = Tables
    /\ hist = << >>
    /\ pol = PolIdle

\* the database init_database creates on a fresh file
FreshDatabase ==
    /\ users = (1 :> [username |-> "admin", security_level |-> 3,
                      is_active |-> TRUE, is_super_admin |-> TRUE])
    /\ objects = << >>
    /\ next_object_id = 1
    /\ audit_logs = << >>

-----------------------------------------------------------------------------
(* audit.py *)

AuditRecord(user_id, event_type, object_id, details, success) ==
    [event_type |-> event_type, user_id |-> user_id, object_id |-> object_id,
     details |-> details, success |-> success]

\* log_event that records granted requests only
log_event_only_success(user_id, event_type, object_id, details, success, audit_fails) ==
    audit_logs' = IF audit_fails \/ ~success
                  THEN audit_logs
                  ELSE Append(audit_logs,
                              AuditRecord(user_id, event_type, object_id, details, success))

\* log_event that ignores its success argument and stores the default, True
log_event_default_success(user_id, event_type, object_id, details, success, audit_fails) ==
    audit_logs' = IF audit_fails
                  THEN audit_logs
                  ELSE Append(audit_logs,
                              AuditRecord(user_id, event_type, object_id, details, TRUE))

\* log_event that keeps only the newest record
log_event_overwriting(user_id, event_type, object_id, details, success, audit_fails) ==
    audit_logs' = IF audit_fails THEN audit_logs
                  ELSE <<AuditRecord(user_id, event_type, object_id, details, success)>>

\* log_event: the INSERT appends one row; when it raises, the exception is
\* printed and swallowed and the table is unchanged
log_event(user_id, event_type, object_id, details, success, audit_fails) ==
    audit_logs' = IF audit_fails
                  THEN audit_logs
                  ELSE Append(audit_logs,
                              AuditRecord(user_id, event_type, object_id, details, success))

-----------------------------------------------------------------------------
(* access_manager.py *)

\* read_outcome with the two levels passed in the wrong order
read_outcome_swapped(user_row, object_row) ==
    IF user_row = << >> \/ object_row = << >>
    THEN "not_found"
    ELSE IF ~can_view_object_existence(object_row[1].security_level,
                                       user_row[1].security_level)
    THEN "hidden"
    ELSE IF check_read_access(object_row[1].security_level, user_row[1].security_level)
    THEN "granted"
    ELSE "denied"

\* request_read_access without the two level checks
read_outcome_no_level_check(user_row, object_row) ==
    IF user_row = << >> \/ object_row = << >>
    THEN "not_found"
    ELSE "granted"

\* The return path request_read_access takes for the rows it loaded
read_outcome(user_row, object_row) ==
    IF user_row = << >> \/ object_row = << >>
    THEN "not_found"
    ELSE IF ~can_view_object_existence(user_row[1].security_level,
                                       object_row[1].security_level)
    THEN "hidden"
    ELSE IF check_read_access(user_row[1].security_level, object_row[1].security_level)
    THEN "granted"
    ELSE "denied"

\* request_read_access that refuses the read when its audit record cannot
\* be written
request_read_access_fail_closed(user_id, object_id, audit_fails) ==
    LET user_row == fetchone(users, user_id)
        object_row == fetchone(objects, object_id)
        outcome == read_outcome(user_row, object_row)
    IN
    /\ UNCHANGED <<users, objects, next_object_id, pol>>
    /\ call' = [op |-> "read_access", user_id |-> user_id, object_id |-> object_id,
                user_row |-> user_row, object_row |-> object_row,
                mutation_fails |-> FALSE, audit_fails |-> audit_fails,
                audit_before |-> Len(audit_logs)]
    /\ log_event(user_id, "read_access", object_id,
                 IF outcome = "not_found"
                 THEN <<"User or object not found">>
                 ELSE IF outcome = "hidden"
                 THEN <<"Cannot view object existence - User level: ",
                        ToString(user_row[1].security_level), ", Object level: ",
                        ToString(object_row[1].security_level)>>
                 ELSE get_access_description(user_row[1].security_level,
                                             object_row[1].security_level, "read"),
                 outcome = "granted", audit_fails)
    /\ ret' = IF outcome = "granted" /\ ~audit_fails
              THEN <<object_row[1].name, object_row[1].content>>
              ELSE None

request_read_access(user_id, object_id, audit_fails) ==
    LET user_row == fetchone(users, user_id)
        object_row == fetchone(objects, object_id)
        outcome == read_outcome(user_row, object_row)
    IN
    /\ UNCHANGED <<users, objects, next_object_id, pol>>
    /\ call' = [op |-> "read_access", user_id |-> user_id, object_id |-> object_id,
                user_row |-> user_row, object_row |-> object_row,
                mutation_fails |-> FALSE, audit_fails |-> audit_fails,
                audit_before |-> Len(audit_logs)]
    /\ IF outcome = "not_found"
       THEN /\ log_event(user_id, "read_access", object_id,
                         <<"User or object not found">>, FALSE, audit_fails)
            /\ ret' = None
       ELSE LET user_level == user_row[1].security_level
                object_name == object_row[1].name
                content == object_row[1].content
                object_level == object_row[1].security_level
            IN  IF outcome = "hidden"
                THEN /\ log_event(user_id, "read_access", object_id,
                                  <<"Cannot view object existence - User level: ",
                                    ToString(user_level), ", Object level: ",
                                    ToString(object_level)>>, FALSE, audit_fails)
                     /\ ret' = None
                ELSE IF outcome = "granted"
                THEN /\ log_event(user_id, "read_access", object_id,
                                  get_access_description(user_level, object_level, "read"),
                                  TRUE, audit_fails)
                     /\ ret' = <<object_name, content>>
                ELSE /\ log_event(user_id, "read_access", object_id,
                                  get_access_description(user_level, object_level, "read"),
                                  FALSE, audit_fails)
                     /\ ret' = None

\* write_outcome with the two levels passed in the wrong order
write_outcome_swapped(user_row, object_row, mutation_fails) ==
    IF user_row = << >> \/ object_row = << >>
    THEN "not_found"
    ELSE IF check_write_access(object_row[1].security_level, user_row[1].security_level)
    THEN IF mutation_fails THEN "storage_error" ELSE "granted"
    ELSE "denied"

\* ObjectManager.read_object: what the console gets for the value
\* request_read_access returned
read_object(result) ==
    IF result # None
    THEN [name |-> result[1], content |-> result[2], access |-> "granted"]
    ELSE [access |-> "denied", message |-> "Read access denied or object not found"]

\* request_write_access that reports a failed UPDATE as a policy denial
write_outcome_failure_as_denial(user_row, object_row, mutation_fails) ==
    IF user_row = << >> \/ object_row = << >>
    THEN "not_found"
    ELSE IF check_write_access(user_row[1].security_level, object_row[1].security_level)
    THEN IF mutation_fails THEN "denied" ELSE "granted"
    ELSE "denied"

\* The return path request_write_access takes
write_outcome(user_row, object_row, mutation_fails) ==
    IF user_row = << >> \/ object_row = << >>
    THEN "not_found"
    ELSE IF check_write_access(user_row[1].security_level, object_row[1].security_level)
    THEN IF mutation_fails THEN "storage_error" ELSE "granted"
    ELSE "denied"

request_write_access(user_id, object_id, new_content, mutation_fails, audit_fails) ==
    LET user_row == fetchone(users, user_id)
        object_row == fetchone(objects, object_id)
        outcome == write_outcome(user_row, object_row, mutation_fails)
    IN
    /\ UNCHANGED <<users, next_object_id, pol>>
    /\ call' = [op |-> "write_access", user_id |-> user_id, object_id |-> object_id,
                new_content |-> new_content,
                user_row |-> user_row, object_row |-> object_row,
                mutation_fails |-> mutation_fails, audit_fails |-> audit_fails,
                audit_before |-> Len(audit_logs)]
    /\ IF outcome = "not_found"
       THEN /\ log_event(user_id, "write_access", object_id,
                         <<"User or object not found">>, FALSE, audit_fails)
            /\ objects' = objects
            /\ ret' = False
       ELSE LET user_level == user_row[1].security_level
                object_level == object_row[1].security_level
            IN  IF outcome = "granted"
                THEN /\ objects' = [objects EXCEPT ![object_id].content = new_content]
                     /\ log_event(user_id, "write_access", object_id,
                                  get_access_description(user_level, object_level, "write"),
                                  TRUE, audit_fails)
                     /\ ret' = True
                ELSE IF outcome = "storage_error"
                THEN /\ objects' = objects
                     /\ log_event(user_id, "write_access", object_id,
                                  <<"Database error: ", StorageError>>, FALSE, audit_fails)
                     /\ ret' = False
                ELSE /\ objects' = objects
                     /\ log_event(user_id, "write_access", object_id,
                                  get_access_description(user_level, object_level, "write"),
                                  FALSE, audit_fails)
                     /\ ret' = False

\* create_outcome that does not compare the level with the subject's level
create_outcome_unchecked(user_row, security_level, mutation_fails) ==
    IF user_row = << >>
    THEN "not_found"
    ELSE IF ~validate_security_level(security_level)
    THEN "invalid_level"
    ELSE IF mutation_fails THEN "storage_error" ELSE "granted"

\* request_object_creation with the level validated only for ordinary subjects
create_outcome_admin_unvalidated(user_row, security_level, mutation_fails) ==
    IF user_row = << >>
    THEN "not_found"
    ELSE IF user_row[1].is_super_admin
    THEN IF mutation_fails THEN "storage_error" ELSE "granted"
    ELSE IF ~validate_security_level(security_level)
    THEN "invalid_level"
    ELSE IF security_level <= user_row[1].security_level
    THEN IF mutation_fails THEN "storage_error" ELSE "granted"
    ELSE "denied"

\* The return path request_object_creation takes
create_outcome(user_row, security_level, mutation_fails) ==
    IF user_row = << >>
    THEN "not_found"
    ELSE IF ~validate_security_level(security_level)
    THEN "invalid_level"
    ELSE IF user_row[1].is_super_admin \/ security_level <= user_row[1].security_level
    THEN IF mutation_fails THEN "storage_error" ELSE "granted"
    ELSE "denied"

request_object_creation(user_id, object_name, content, security_level, mutation_fails, audit_fails) ==
    LET user_row == fetchone(users, user_id)
        outcome == create_outcome(user_row, security_level, mutation_fails)
    IN
    /\ UNCHANGED <<users, pol>>
    /\ call' = [op |-> "create_object", user_id |-> user_id,
                object_name |-> object_name, content |-> content,
                security_level |-> security_level, object_id |-> next_object_id,
                user_row |-> user_row,
                mutation_fails |-> mutation_fails, audit_fails |-> audit_fails,
                audit_before |-> Len(audit_logs)]
    /\ IF outcome = "not_found"
       THEN /\ log_event(user_id, "create_object", NoObject,
                         <<"User not found">>, FALSE, audit_fails)
            /\ UNCHANGED <<objects, next_object_id>>
            /\ ret' = False
       ELSE IF outcome = "invalid_level"
       THEN /\ log_event(user_id, "create_object", NoObject,
                         <<"Invalid security level: ", ToString(security_level)>>,
                         FALSE, audit_fails)
            /\ UNCHANGED <<objects, next_object_id>>
            /\ ret' = False
       ELSE IF outcome = "granted"
       THEN /\ next_object_id <= MaxObjects
            /\ objects' = objects @@
                   (next_object_id :>
                       [name |-> object_name, content |-> content,
                        security_level |-> security_level, owner_id |-> user_id])
            /\ next_object_id' = next_object_id + 1
            /\ log_event(user_id, "create_object", next_object_id,
                         <<"Object created with level: ", ToString(security_level)>>,
                         TRUE, audit_fails)
            /\ ret' = True
       ELSE IF outcome = "storage_error"
       THEN /\ UNCHANGED <<objects, next_object_id>>
            /\ log_event(user_id, "create_object", NoObject,
                         <<"Database error: ", StorageError>>, FALSE, audit_fails)
            /\ ret' = False
       ELSE /\ UNCHANGED <<objects, next_object_id>>
            /\ log_event(user_id, "create_object", NoObject,
                         <<"Cannot create object at level ", ToString(security_level),
                           " (user level: ", ToString(user_row[1].security_level), ")">>,
                         FALSE, audit_fails)
            /\ ret' = False

\* Python's str(bool) in the f-string of the denial detail
BoolStr(b) == IF b THEN "True" ELSE "False"

\* the BOOLEAN column is_super_admin holds the integer 1 or 0, and the
\* f-string of the denial detail prints the stored integer
FlagStr(b) == IF b THEN "1" ELSE "0"

\* delete_outcome that takes every subject for the owner
delete_outcome_any_owner(user_id, user_row, object_row, mutation_fails) ==
    IF user_row = << >> \/ object_row = << >>
    THEN "not_found"
    ELSE IF check_delete_access(user_row[1].security_level, object_row[1].security_level,
                                TRUE, user_row[1].is_super_admin)
    THEN IF mutation_fails THEN "storage_error" ELSE "granted"
    ELSE "denied"

\* The return path request_object_deletion takes
delete_outcome(user_id, user_row, object_row, mutation_fails) ==
    IF user_row = << >> \/ object_row = << >>
    THEN "not_found"
    ELSE IF check_delete_access(user_row[1].security_level, object_row[1].security_level,
                                user_id = object_row[1].owner_id,
                                user_row[1].is_super_admin)
    THEN IF mutation_fails THEN "storage_error" ELSE "granted"
    ELSE "denied"

\* request_object_deletion whose failed DELETE is not rolled back
request_object_deletion_without_rollback(user_id, object_id, mutation_fails, audit_fails) ==
    LET user_row == fetchone(users, user_id)
        object_row == fetchone(objects, object_id)
        outcome == delete_outcome(user_id, user_row, object_row, mutation_fails)
    IN
    /\ UNCHANGED <<users, next_object_id, pol>>
    /\ call' = [op |-> "delete_object", user_id |-> user_id, object_id |-> object_id,
                user_row |-> user_row, object_row |-> object_row,
                mutation_fails |-> mutation_fails, audit_fails |-> audit_fails,
                audit_before |-> Len(audit_logs)]
    /\ IF outcome = "not_found"
       THEN /\ log_event(user_id, "delete_object", object_id,
                         <<"User or object not found">>, FALSE, audit_fails)
            /\ objects' = objects
            /\ ret' = False
       ELSE IF outcome = "granted"
       THEN /\ objects' = [i \in DOMAIN objects \ {object_id} |-> objects[i]]
            /\ log_event(user_id, "delete_object", object_id,
                         <<"Object deleted successfully">>, TRUE, audit_fails)
            /\ ret' = True
       ELSE IF outcome = "storage_error"
       THEN /\ objects' = [i \in DOMAIN objects \ {object_id} |-> objects[i]]
            /\ log_event(user_id, "delete_object", object_id,
                         <<"Database error: ", StorageError>>, FALSE, audit_fails)
            /\ ret' = False
       ELSE /\ objects' = objects
            /\ log_event(user_id, "delete_object", object_id,
                         <<"Delete access denied - Owner: ",
                           BoolStr(user_id = object_row[1].owner_id),
                           ", Super Admin: ", FlagStr(user_row[1].is_super_admin)>>,
                         FALSE, audit_fails)
            /\ ret' = False

request_object_deletion(user_id, object_id, mutation_fails, audit_fails) ==
    LET user_row == fetchone(users, user_id)
        object_row == fetchone(objects, object_id)
        outcome == delete_outcome(user_id, user_row, object_row, mutation_fails)
    IN
    /\ UNCHANGED <<users, next_object_id, pol>>
    /\ call' = [op |-> "delete_object", user_id |-> user_id, object_id |-> object_id,
                user_row |-> user_row, object_row |-> object_row,
                mutation_fails |-> mutation_fails, audit_fails |-> audit_fails,
                audit_before |-> Len(audit_logs)]
    /\ IF outcome = "not_found"
       THEN /\ log_event(user_id, "delete_object", object_id,
                         <<"User or object not found">>, FALSE, audit_fails)
            /\ objects' = objects
            /\ ret' = False
       ELSE IF outcome = "granted"
       THEN /\ objects' = [i \in DOMAIN objects \ {object_id} |-> objects[i]]
            /\ log_event(user_id, "delete_object", object_id,
                         <<"Object deleted successfully">>, TRUE, audit_fails)
            /\ ret' = True
       ELSE IF outcome = "storage_error"
       THEN /\ objects' = objects
            /\ log_event(user_id, "delete_object", object_id,
                         <<"Database error: ", StorageError>>, FALSE, audit_fails)
            /\ ret' = False
       ELSE /\ objects' = objects
            /\ log_event(user_id, "delete_object", object_id,
                         <<"Delete access denied - Owner: ",
                           BoolStr(user_id = object_row[1].owner_id),
                           ", Super Admin: ", FlagStr(user_row[1].is_super_admin)>>,
                         FALSE, audit_fails)
            /\ ret' = False

-----------------------------------------------------------------------------
(* auth.py *)

\* register_user: the first user of an empty table becomes super admin at
\* level 3, every other one a regular user at level 0; no audit record
register_user(username, mutation_fails) ==
    /\ UNCHANGED <<objects, next_object_id, audit_logs, pol>>
    /\ call' = [op |-> "register_user", username |-> username,
                mutation_fails |-> mutation_fails]
    /\ IF \E id \in DOMAIN users : users[id].username = username
       THEN /\ users' = users
            /\ ret' = False
       ELSE LET user_count == Cardinality(DOMAIN users)
                first == (user_count = 0)
            IN  IF ~mutation_fails
                THEN /\ users' = users @@
                            ((user_count + 1) :>
                                [username |-> username,
                                 security_level |-> IF first THEN 3 ELSE 0,
                                 is_active |-> TRUE,
                                 is_super_admin |-> first])
                     /\ ret' = True
                ELSE /\ users' = users
                     /\ ret' = False

\* change_user_security_level(target_user_id, new_level, requester_is_super_admin):
\* the users table after the call, and whether it returned True
change_user_security_level(target_user_id, new_level, requester_is_super_admin, mutation_fails) ==
    IF ~requester_is_super_admin
    THEN [ok |-> FALSE, users |-> users]
    ELSE IF new_level \notin {0, 1, 2, 3}
    THEN [ok |-> FALSE, users |-> users]
    ELSE IF mutation_fails
    THEN [ok |-> FALSE, users |-> users]
    ELSE [ok |-> TRUE,
          users |-> [id \in DOMAIN users |->
                        IF id = target_user_id
                        THEN [users[id] EXCEPT !.security_level = new_level]
                        ELSE users[id]]]

-----------------------------------------------------------------------------
(* user_manager.py *)

_is_super_admin_any_user(user_id) ==
    user_id \in DOMAIN users

_is_super_admin(user_id) ==
    user_id \in DOMAIN users /\ users[user_id].is_super_admin

change_user_level(requester_id, target_user_id, new_level, mutation_fails, audit_fails) ==
    /\ UNCHANGED <<objects, next_object_id, pol>>
    /\ call' = [op |-> "change_user_level", requester_id |-> requester_id,
                target_user_id |-> target_user_id, new_level |-> new_level,
                mutation_fails |-> mutation_fails, audit_fails |-> audit_fails]
    /\ IF ~_is_super_admin(requester_id)
       THEN /\ UNCHANGED <<users, audit_logs>>
            /\ ret' = <<"False", "Only super admin can change security levels">>
       ELSE IF new_level \notin DOMAIN SECURITY_LEVELS
       THEN /\ UNCHANGED <<users, audit_logs>>
            /\ ret' = <<"False", "Invalid security level">>
       ELSE IF target_user_id \notin DOMAIN users
       THEN /\ UNCHANGED <<users, audit_logs>>
            /\ ret' = <<"False", "Target user not found">>
       ELSE LET target_username == users[target_user_id].username
                done == change_user_security_level(target_user_id, new_level, TRUE,
                                                   mutation_fails)
            IN  /\ users' = done.users
                /\ IF done.ok
                   THEN /\ log_event(requester_id, "change_user_level", NoObject,
                                     <<"Changed ", target_username, " to level ",
                                       ToString(new_level)>>, TRUE, audit_fails)
                        /\ ret' = <<"True", "Security level changed">>
                   ELSE /\ log_event(requester_id, "change_user_level", NoObject,
                                     <<"Failed to change ", target_username, " to level ",
                                       ToString(new_level)>>, FALSE, audit_fails)
                        /\ ret' = <<"False", "Failed to change security level">>

------------------------------------------------------------------------------
(* AccessManager.get_accessible_objects: the listing *)

\* the object names in ascending order of SQLite's default (BINARY)
\* collation, which compares the bytes
NamesAscending == <<"doc", "memo">>

NameRank(name) == CHOOSE i \in DOMAIN NamesAscending : NamesAscending[i] = name

\* WHERE security_level < ?  instead of  <= ?
accessible_ids_strictly_below(objs, user_level) ==
    {id \in DOMAIN objs : objs[id].security_level < user_level}

\* WHERE security_level <= ?
accessible_ids(objs, user_level) ==
    {id \in DOMAIN objs : objs[id].security_level <= user_level}

\* ORDER BY security_level DESC, name ASC: row a may stand before row b
order_before(a, b) ==
    \/ a.security_level > b.security_level
    \/ /\ a.security_level = b.security_level
       /\ NameRank(a.name) <= NameRank(b.name)

\* SELECT id, name, security_level, owner_id
listed_row(objs, id) ==
    [id |-> id, name |-> objs[id].name,
     security_level |-> objs[id].security_level, owner_id |-> objs[id].owner_id]

\* the results fetchall can give for the selected ids: every row once, in
\* an order ORDER BY allows (SQLite leaves the order of rows with equal
\* keys open)
fetchall_ordered(objs, ids) ==
    LET n == Cardinality(ids)
        orders == {s \in [1..n -> ids] :
                      /\ \A i, j \in 1..n : i # j => s[i] # s[j]
                      /\ \A i, j \in 1..n :
                            i < j => order_before(objs[s[i]], objs[s[j]])}
    IN  {[i \in 1..n |-> listed_row(objs, s[i])] : s \in orders}

\* no log_event on either path
get_accessible_objects(user_id) ==
    LET user_row == fetchone(users, user_id) IN
    /\ UNCHANGED <<users, objects, next_object_id, audit_logs, pol>>
    /\ call' = [op |-> "list_objects", user_id |-> user_id, user_row |-> user_row]
    /\ IF user_row = << >>
       THEN ret' = << >>
       ELSE ret' \in fetchall_ordered(objects,
                         accessible_ids(objects, user_row[1].security_level))

------------------------------------------------------------------------------
(* UserManager.deactivate_user, UserManager.activate_user *)

\* deactivate_user without the test requester_id == target_user_id
deactivate_user_self_allowed(requester_id, target_user_id, mutation_fails, audit_fails) ==
    /\ UNCHANGED <<objects, next_object_id, pol>>
    /\ call' = [op |-> "deactivate_user", requester_id |-> requester_id,
                target_user_id |-> target_user_id,
                mutation_fails |-> mutation_fails, audit_fails |-> audit_fails]
    /\ IF ~_is_super_admin(requester_id)
       THEN /\ UNCHANGED <<users, audit_logs>>
            /\ ret' = <<"False", "Only super admin can deactivate users">>
       ELSE IF target_user_id \notin DOMAIN users
       THEN /\ UNCHANGED <<users, audit_logs>>
            /\ ret' = <<"False", "Target user not found">>
       ELSE LET target_username == users[target_user_id].username IN
            IF ~mutation_fails
            THEN /\ users' = [users EXCEPT ![target_user_id].is_active = FALSE]
                 /\ log_event(requester_id, "deactivate_user", NoObject,
                              <<"Deactivated user: ", target_username>>, TRUE, audit_fails)
                 /\ ret' = <<"True", "User deactivated successfully">>
            ELSE /\ users' = users
                 /\ log_event(requester_id, "deactivate_user", NoObject,
                              <<"Failed to deactivate ", target_username, ": ", StorageError>>,
                              FALSE, audit_fails)
                 /\ ret' = <<"False", "Error deactivating user">>

deactivate_user(requester_id, target_user_id, mutation_fails, audit_fails) ==
    /\ UNCHANGED <<objects, next_object_id, pol>>
    /\ call' = [op |-> "deactivate_user", requester_id |-> requester_id,
                target_user_id |-> target_user_id,
                mutation_fails |-> mutation_fails, audit_fails |-> audit_fails]
    /\ IF ~_is_super_admin(requester_id)
       THEN /\ UNCHANGED <<users, audit_logs>>
            /\ ret' = <<"False", "Only super admin can deactivate users">>
       ELSE IF target_user_id \notin DOMAIN users
       THEN /\ UNCHANGED <<users, audit_logs>>
            /\ ret' = <<"False", "Target user not found">>
       ELSE IF requester_id = target_user_id
       THEN /\ UNCHANGED <<users, audit_logs>>
            /\ ret' = <<"False", "Cannot deactivate your own account">>
       ELSE LET target_username == users[target_user_id].username IN
            IF ~mutation_fails
            THEN /\ users' = [users EXCEPT ![target_user_id].is_active = FALSE]
                 /\ log_event(requester_id, "deactivate_user", NoObject,
                              <<"Deactivated user: ", target_username>>, TRUE, audit_fails)
                 /\ ret' = <<"True", "User deactivated successfully">>
            ELSE /\ users' = users
                 /\ log_event(requester_id, "deactivate_user", NoObject,
                              <<"Failed to deactivate ", target_username, ": ", StorageError>>,
                              FALSE, audit_fails)
                 /\ ret' = <<"False", "Error deactivating user">>

activate_user(requester_id, target_user_id, mutation_fails, audit_fails) ==
    /\ UNCHANGED <<objects, next_object_id, pol>>
    /\ call' = [op |-> "activate_user", requester_id |-> requester_id,
                target_user_id |-> target_user_id,
                mutation_fails |-> mutation_fails, audit_fails |-> audit_fails]
    /\ IF ~_is_super_admin(requester_id)
       THEN /\ UNCHANGED <<users, audit_logs>>
            /\ ret' = <<"False", "Only super admin can activate users">>
       ELSE IF target_user_id \notin DOMAIN users
       THEN /\ UNCHANGED <<users, audit_logs>>
            /\ ret' = <<"False", "Target user not found">>
       ELSE LET target_username == users[target_user_id].username IN
            IF ~mutation_fails
            THEN /\ users' = [users EXCEPT ![target_user_id].is_active = TRUE]
                 /\ log_event(requester_id, "activate_user", NoObject,
                              <<"Activated user: ", target_username>>, TRUE, audit_fails)
                 /\ ret' = <<"True", "User activated successfully">>
            ELSE /\ users' = users
                 /\ log_event(requester_id, "activate_user", NoObject,
                              <<"Failed to activate ", target_username, ": ", StorageError>>,
                              FALSE, audit_fails)
                 /\ ret' = <<"False", "Error activating user">>

------------------------------------------------------------------------------
(* ObjectManager: search_objects, get_objects_by_level, get_object_info *)

\* the characters of the object names and of the search terms
Spell ==
    [s \in {"doc", "memo", "", "o", "D", "_e", "%", "x"} |->
        CASE s = "doc"  -> <<"d", "o", "c">>
          [] s = "memo" -> <<"m", "e", "m", "o">>
          [] s = ""     -> << >>
          [] s = "o"    -> <<"o">>
          [] s = "D"    -> <<"D">>
          [] s = "_e"   -> <<"_", "e">>
          [] s = "%"    -> <<"%">>
          [] s = "x"    -> <<"x">>]

\* LIKE compares ASCII letters without regard to case
fold(ch) == IF ch = "D" THEN "d" ELSE ch

\* SQLite's LIKE on character sequences: % stands for any run of
\* characters, _ for any one character
RECURSIVE like(_, _)
like(pattern, text) ==
    IF pattern = << >>
    THEN text = << >>
    ELSE IF Head(pattern) = "%"
    THEN \/ like(Tail(pattern), text)
         \/ text # << >> /\ like(pattern, Tail(text))
    ELSE /\ text # << >>
         /\ Head(pattern) = "_" \/ fold(Head(pattern)) = fold(Head(text))
         /\ like(Tail(pattern), Tail(text))

\* the user's level, 0 when the id has no row
\* _get_user_security_level answering with the level the console session
\* captured at login (current_user['security_level'])
_get_user_security_level_of_session(user_id) ==
    IF hist # << >> /\ hist[1].call.op = "login" /\ hist[1].ret[1] = user_id
    THEN hist[1].ret[3]
    ELSE IF user_id \in DOMAIN users THEN users[user_id].security_level ELSE 0

\* _get_user_security_level that puts an unknown subject below every level
_get_user_security_level_unknown_below(user_id) ==
    IF user_id \in DOMAIN users THEN users[user_id].security_level ELSE 0 - 1

_get_user_security_level(user_id) ==
    IF user_id \in DOMAIN users THEN users[user_id].security_level ELSE 0

\* WHERE name LIKE ? without the test of the level
search_ids_any_level(objs, search_term, user_level) ==
    {id \in DOMAIN objs :
        like(<<"%">> \o Spell[search_term] \o <<"%">>, Spell[objs[id].name])}

\* WHERE name LIKE ? AND security_level <= ?  with "%" + search_term + "%"
search_ids(objs, search_term, user_level) ==
    {id \in DOMAIN objs :
        /\ like(<<"%">> \o Spell[search_term] \o <<"%">>, Spell[objs[id].name])
        /\ objs[id].security_level <= user_level}

search_objects(user_id, search_term) ==
    LET user_level == _get_user_security_level(user_id) IN
    /\ UNCHANGED <<users, objects, next_object_id, audit_logs, pol>>
    /\ call' = [op |-> "search_objects", user_id |-> user_id,
                search_term |-> search_term, user_row |-> fetchone(users, user_id)]
    /\ ret' \in fetchall_ordered(objects, search_ids(objects, search_term, user_level))

\* SELECT id, name, owner_id ... ORDER BY name ASC: every selected row once,
\* in an order of the names
fetchall_by_name(objs, ids) ==
    LET n == Cardinality(ids)
        orders == {s \in [1..n -> ids] :
                      /\ \A i, j \in 1..n : i # j => s[i] # s[j]
                      /\ \A i, j \in 1..n :
                            i < j => NameRank(objs[s[i]].name) <= NameRank(objs[s[j]].name)}
    IN  {[i \in 1..n |-> [id |-> s[i], name |-> objs[s[i]].name,
                          owner_id |-> objs[s[i]].owner_id]] : s \in orders}

get_objects_by_level(user_id, security_level) ==
    LET user_level == _get_user_security_level(user_id) IN
    /\ UNCHANGED <<users, objects, next_object_id, audit_logs, pol>>
    /\ call' = [op |-> "get_objects_by_level", user_id |-> user_id,
                security_level |-> security_level, user_row |-> fetchone(users, user_id)]
    /\ IF security_level > user_level
       THEN ret' = << >>
       ELSE ret' \in fetchall_by_name(objects,
                        {id \in DOMAIN objects : objects[id].security_level = security_level})

\* the dictionary returned is the tuple of its name, security_level and
\* owner_id (created_at is not kept here)
get_object_info(user_id, object_id) ==
    LET obj == fetchone(objects, object_id)
        user_level == _get_user_security_level(user_id)
    IN
    /\ UNCHANGED <<users, objects, next_object_id, audit_logs, pol>>
    /\ call' = [op |-> "get_object_info", user_id |-> user_id, object_id |-> object_id,
                user_row |-> fetchone(users, user_id), object_row |-> obj]
    /\ IF obj = << >>
       THEN ret' = None
       ELSE IF ~can_view_object_existence(user_level, obj[1].security_level)
       THEN ret' = None
       ELSE ret' = <<obj[1].name, obj[1].security_level, obj[1].owner_id>>

------------------------------------------------------------------------------
(* A SELECT of a request raises *)

\* the exception as the caller of the request gets it
Raised(e) == <<"raise", e>>

\* The lookups of request_read_access, request_write_access,
\* request_object_creation, request_object_deletion and
\* get_accessible_objects run before any try: when cursor.execute raises
\* there, the exception leaves the request, log_event is not called and
\* nothing has been written.
lookup_raises(request, user_id, object_id) ==
    /\ UNCHANGED <<users, objects, next_object_id, audit_logs, pol>>
    /\ call' = [op |-> "lookup_error", request |-> request,
                user_id |-> user_id, object_id |-> object_id]
    /\ ret' = Raised(StorageError)

-----------------------------------------------------------------------------
(* The callers' inputs *)

LevelInputs == (0 - LevelMargin)..(3 + LevelMargin)

\* what the history variables keep of a call: the tables it started on, and
\* the call it follows
Track ==
    /\ pre' = Tables
    /\ hist' = IF call.op = "none" THEN hist ELSE Append(hist, [call |-> call, ret |-> ret])

ReadCall ==
    \E user_id \in UserIds, object_id \in ObjectIds, audit_fails \in BOOLEAN :
        request_read_access(user_id, object_id, audit_fails)

WriteCall ==
    \E user_id \in UserIds, object_id \in ObjectIds, new_content \in Contents,
       mutation_fails \in BOOLEAN, audit_fails \in BOOLEAN :
        request_write_access(user_id, object_id, new_content, mutation_fails, audit_fails)

CreateCall ==
    \E user_id \in UserIds, object_name \in ObjectNames, content \in Contents,
       security_level \in LevelInputs, mutation_fails \in BOOLEAN, audit_fails \in BOOLEAN :
        request_object_creation(user_id, object_name, content, security_level,
                                mutation_fails, audit_fails)

DeleteCall ==
    \E user_id \in UserIds, object_id \in ObjectIds,
       mutation_fails \in BOOLEAN, audit_fails \in BOOLEAN :
        request_object_deletion(user_id, object_id, mutation_fails, audit_fails)

RegisterCall ==
    \E username \in Usernames, mutation_fails \in BOOLEAN :
        register_user(username, mutation_fails)

ChangeLevelCall ==
    \E requester_id \in UserIds, target_user_id \in UserIds, new_level \in LevelInputs,
       mutation_fails \in BOOLEAN, audit_fails \in BOOLEAN :
        change_user_level(requester_id, target_user_id, new_level,
                          mutation_fails, audit_fails)

RequestRead ==
    /\ calls < MaxCalls
    /\ calls' = calls + 1
    /\ ReadCall
    /\ Track

RequestWrite ==
    /\ calls < MaxCalls
    /\ calls' = calls + 1
    /\ WriteCall
    /\ Track

RequestCreate ==
    /\ calls < MaxCalls
    /\ calls' = calls + 1
    /\ CreateCall
    /\ Track

RequestDelete ==
    /\ calls < MaxCalls
    /\ calls' = calls + 1
    /\ DeleteCall
    /\ Track

Register ==
    /\ calls < MaxCalls
    /\ calls' = calls + 1
    /\ RegisterCall
    /\ Track

ChangeLevel ==
    /\ calls < MaxCalls
    /\ calls' = calls + 1
    /\ ChangeLevelCall
    /\ Track

ListCall ==
    \E user_id \in UserIds : get_accessible_objects(user_id)

ListAccessible ==
    /\ calls < MaxCalls
    /\ calls' = calls + 1
    /\ ListCall
    /\ Track

SearchTerms == {"", "o", "D", "_e", "%", "x"}

SearchCall ==
    \E user_id \in UserIds, search_term \in SearchTerms :
        search_objects(user_id, search_term)

ByLevelCall ==
    \E user_id \in UserIds, security_level \in LevelInputs :
        get_objects_by_level(user_id, security_level)

InfoCall ==
    \E user_id \in UserIds, object_id \in ObjectIds :
        get_object_info(user_id, object_id)

DeactivateCall ==
    \E requester_id \in UserIds, target_user_id \in UserIds,
       mutation_fails \in BOOLEAN, audit_fails \in BOOLEAN :
        deactivate_user(requester_id, target_user_id, mutation_fails, audit_fails)

ActivateCall ==
    \E requester_id \in UserIds, target_user_id \in UserIds,
       mutation_fails \in BOOLEAN, audit_fails \in BOOLEAN :
        activate_user(requester_id, target_user_id, mutation_fails, audit_fails)

LookupFaultCall ==
    \E request \in {"read_access", "write_access", "create_object", "delete_object",
                    "list_objects"},
       user_id \in UserIds, object_id \in ObjectIds :
        lookup_raises(request, user_id, object_id)

LookupFault ==
    /\ calls < MaxCalls
    /\ calls' = calls + 1
    /\ LookupFaultCall
    /\ Track

Search ==
    /\ calls < MaxCalls
    /\ calls' = calls + 1
    /\ SearchCall
    /\ Track

ByLevel ==
    /\ calls < MaxCalls
    /\ calls' = calls + 1
    /\ ByLevelCall
    /\ Track

Info ==
    /\ calls < MaxCalls
    /\ calls' = calls + 1
    /\ InfoCall
    /\ Track

Deactivate ==
    /\ calls < MaxCalls
    /\ calls' = calls + 1
    /\ DeactivateCall
    /\ Track

Activate ==
    /\ calls < MaxCalls
    /\ calls' = calls + 1
    /\ ActivateCall
    /\ Track

Next ==
    \/ RequestRead
    \/ RequestWrite
    \/ RequestCreate
    \/ RequestDelete
    \/ Register
    \/ ChangeLevel
    \/ ListAccessible
    \/ Search
    \/ ByLevel
    \/ Info
    \/ Deactivate
    \/ Activate
    \/ LookupFault

Spec == Init /\ [][Next]_vars

-----------------------------------------------------------------------------
(* The policy engine on its own: every pair of levels and flags *)

PolicyInit ==
    /\ FreshDatabase
    /\ calls = 0
    /\ call = [op |-> "none"]
    /\ ret = NoCall
    /\ pre = Tables
    /\ hist = << >>
    /\ pol \in [phase : {"input"}, user_level : LevelInputs, object_level : LevelInputs,
                is_owner : BOOLEAN, is_super_admin : BOOLEAN]

PolicyEvaluate ==
    /\ pol.phase = "input"
    /\ pol' = [phase |-> "done",
               user_level |-> pol.user_level, object_level |-> pol.object_level,
               is_owner |-> pol.is_owner, is_super_admin |-> pol.is_super_admin,
               read |-> check_read_access(pol.user_level, pol.object_level),
               write |-> check_write_access(pol.user_level, pol.object_level),
               delete |-> check_delete_access(pol.user_level, pol.object_level,
                                              pol.is_owner, pol.is_super_admin),
               view |-> can_view_object_existence(pol.user_level, pol.object_level),
               valid |-> validate_security_level(pol.user_level)]
    /\ UNCHANGED dbvars

PolicyNext ==
    \/ PolicyEvaluate

SpecPolicy == PolicyInit /\ [][PolicyNext]_vars

-----------------------------------------------------------------------------
(* Properties of the access mediator, checked under Spec.  `call` holds   *)
(* the arguments of the last request and the rows it loaded, `ret` what   *)
(* it returned, and the tables are as the request left them.              *)

MediatorOps == {"read_access", "write_access", "create_object", "delete_object"}

DefinedLevels == {0, 1, 2, 3}

RowsLoaded == call.user_row # << >> /\ call.object_row # << >>

SubjectLevel == call.user_row[1].security_level

ObjectLevel == call.object_row[1].security_level

\* C1 (no read up): request_read_access returns the object's (name, content)
\* only if both rows exist and the subject's stored level, as loaded by the
\* request, is >= the object's level; in every other case it returns None.
C1_NoReadUp ==
    call.op = "read_access" =>
        /\ call.user_row = fetchone(users, call.user_id)
        /\ call.object_row = fetchone(objects, call.object_id)
        /\ ret # None =>
              /\ RowsLoaded
              /\ SubjectLevel >= ObjectLevel
              /\ ret = <<call.object_row[1].name, call.object_row[1].content>>
        /\ ~(RowsLoaded /\ SubjectLevel >= ObjectLevel) => ret = None

\* a subject strictly above the object's level has read its name and content
C1_Witness ==
    /\ call.op = "read_access"
    /\ RowsLoaded
    /\ SubjectLevel > ObjectLevel
    /\ ret = <<objects[call.object_id].name, objects[call.object_id].content>>

\* C2 (no write down): request_write_access changes the content to the new
\* content and returns True only if both rows exist and the subject's stored
\* level is <= the object's level; when the subject's level is above the
\* object's level the row is left as it was and False is returned.
C2_NoWriteDown ==
    call.op = "write_access" =>
        /\ call.user_row = fetchone(users, call.user_id)
        /\ ret \in {True, False}
        /\ ret = True =>
              /\ RowsLoaded
              /\ SubjectLevel <= ObjectLevel
              /\ call.object_id \in DOMAIN objects
              /\ objects[call.object_id] =
                     [call.object_row[1] EXCEPT !.content = call.new_content]
        /\ fetchone(objects, call.object_id) # call.object_row => ret = True
        /\ (RowsLoaded /\ SubjectLevel > ObjectLevel) =>
              /\ ret = False
              /\ fetchone(objects, call.object_id) = call.object_row

\* a permitted write has replaced the content by a different one
C2_Witness ==
    /\ call.op = "write_access"
    /\ ret = True
    /\ SubjectLevel < ObjectLevel
    /\ call.object_row[1].content # call.new_content
    /\ objects[call.object_id].content = call.new_content

\* C3 as stated: every mediator request appends exactly one audit record
\* before it returns, on every return path.
C3_ExactlyOneAudit ==
    call.op \in MediatorOps => Len(audit_logs) = call.audit_before + 1

\* C3 as amended: every mediator request calls log_event once on every
\* return path, so exactly one record of its event type and subject id is
\* appended unless the INSERT of log_event raises; then nothing is appended.
C3_OneAuditUnlessInsertFails ==
    call.op \in MediatorOps =>
        IF call.audit_fails
        THEN Len(audit_logs) = call.audit_before
        ELSE /\ Len(audit_logs) = call.audit_before + 1
             /\ audit_logs[Len(audit_logs)].event_type = call.op
             /\ audit_logs[Len(audit_logs)].user_id = call.user_id

\* the storage-failure path of a permitted write has written its one record
C3_Witness ==
    /\ call.op = "write_access"
    /\ call.mutation_fails
    /\ ~call.audit_fails
    /\ ret = False
    /\ Len(audit_logs) = call.audit_before + 1
    /\ audit_logs[Len(audit_logs)].details = <<"Database error: ", StorageError>>

\* C4: the success flag of the audit record a mediator request appends
\* equals the outcome it returns: success is true iff the request returns
\* content or True, false iff it returns None or False.
C4_AuditSuccessMatchesReturn ==
    (call.op \in MediatorOps /\ Len(audit_logs) > call.audit_before) =>
        audit_logs[Len(audit_logs)].success = (ret \notin {None, False})

\* a denied delete has written its record with success = false
C4_Witness ==
    /\ call.op = "delete_object"
    /\ RowsLoaded
    /\ ret = False
    /\ Len(audit_logs) = call.audit_before + 1
    /\ audit_logs[Len(audit_logs)].success = FALSE
    /\ audit_logs[Len(audit_logs)].details[1] = "Delete access denied - Owner: "

\* what check_delete_access is to decide for the rows the request loaded
DeleteCondition ==
    \/ call.user_row[1].is_super_admin /\ SubjectLevel = 3
    \/ call.user_id = call.object_row[1].owner_id /\ SubjectLevel = ObjectLevel

CreateCondition ==
    \/ call.user_row[1].is_super_admin
    \/ call.security_level <= SubjectLevel

\* the row request_object_creation is to insert
CreatedRow ==
    [name |-> call.object_name, content |-> call.content,
     security_level |-> call.security_level, owner_id |-> call.user_id]

\* the new id resolves to the created row
Inserted ==
    /\ call.object_id \in DOMAIN objects
    /\ objects[call.object_id] = CreatedRow
    /\ next_object_id = call.object_id + 1

\* C10 as stated: for an existing subject and a valid level a new object
\* (that level, owner = the subject) is inserted iff the subject is super
\* admin or the level is <= the subject's stored level.
C10_CreateIffAuthorized ==
    (call.op = "create_object" /\ call.user_row # << >>
        /\ call.security_level \in DefinedLevels) =>
        (Inserted <=> CreateCondition)

\* C10 as amended: the object is inserted iff the subject is super admin or
\* the level is <= its stored level, and the INSERT does not raise; otherwise
\* no row is added.  A subject that is not super admin never creates above
\* its own level.
C10_CreateIffAuthorizedAndStorage ==
    (call.op = "create_object" /\ call.user_row # << >>
        /\ call.security_level \in DefinedLevels) =>
        /\ call.user_row = fetchone(users, call.user_id)
        /\ Inserted <=> (CreateCondition /\ ~call.mutation_fails)
        /\ ret = True <=> Inserted
        /\ ~Inserted => (call.object_id \notin DOMAIN objects
                            /\ next_object_id = call.object_id)
        /\ (Inserted /\ ~call.user_row[1].is_super_admin) =>
              objects[call.object_id].security_level <= SubjectLevel

\* a regular subject has created an object below its own level
C10_Witness ==
    /\ call.op = "create_object"
    /\ call.user_row # << >>
    /\ ~call.user_row[1].is_super_admin
    /\ call.security_level < SubjectLevel
    /\ ret = True
    /\ Inserted

-----------------------------------------------------------------------------
(* Properties of the policy engine, checked under SpecPolicy *)

PolicyDone == pol.phase = "done"

\* C5: for all levels a, b of the defined set {0,1,2,3},
\* check_read_access(a,b) = (a >= b) and check_write_access(a,b) = (a <= b).
C5_ReadWriteInequalities ==
    (PolicyDone /\ pol.user_level \in DefinedLevels /\ pol.object_level \in DefinedLevels) =>
        /\ pol.read = (pol.user_level >= pol.object_level)
        /\ pol.write = (pol.user_level <= pol.object_level)

\* Confidential against Secret: no read, write allowed
C5_Witness ==
    /\ PolicyDone
    /\ pol.user_level = 1
    /\ pol.object_level = 2
    /\ pol.read = FALSE
    /\ pol.write = TRUE

\* C6: when at least one of the two integer levels is outside {0,1,2,3},
\* check_read_access and check_write_access both return false.
C6_OutsideLevelsDenied ==
    (PolicyDone /\ (pol.user_level \notin DefinedLevels
                       \/ pol.object_level \notin DefinedLevels)) =>
        (pol.read = FALSE /\ pol.write = FALSE)

\* a subject level above Top Secret against a Public object
C6_Witness ==
    /\ PolicyDone
    /\ pol.user_level = 4
    /\ pol.object_level = 0
    /\ pol.read = FALSE
    /\ pol.write = FALSE

\* C7: can_view_object_existence(a,b) = check_read_access(a,b) for all
\* integer levels a, b, the levels outside {0,1,2,3} included.
C7_ViewEqualsRead ==
    PolicyDone => pol.view = pol.read

InvalidLevelRequest ==
    /\ call.op = "create_object"
    /\ call.user_row # << >>
    /\ call.security_level \notin DefinedLevels

\* the record request_object_creation hands to log_event for an invalid level
InvalidLevelRecord ==
    AuditRecord(call.user_id, "create_object", NoObject,
                <<"Invalid security level: ", ToString(call.security_level)>>, FALSE)

\* C11 as stated: request_object_creation with a level outside the defined
\* set, by an existing subject (super admin or not), returns False, inserts
\* no object, and appends one audit record with success = false whose detail
\* reports the invalid level.
C11_InvalidLevelRejectedAndLogged ==
    InvalidLevelRequest =>
        /\ ret = False
        /\ objects = pre.objects
        /\ next_object_id = pre.next_object_id
        /\ audit_logs = Append(pre.audit_logs, InvalidLevelRecord)

\* C11 as amended: request_object_creation with a level outside the defined
\* set, by an existing subject (super admin or not), returns False and
\* inserts no object; it appends one audit record with success = false whose
\* detail is "Invalid security level: <level>", unless the INSERT of
\* log_event raises, in which case the audit log is left as it was.
C11_InvalidLevelRejected ==
    InvalidLevelRequest =>
        /\ ret = False
        /\ objects = pre.objects
        /\ next_object_id = pre.next_object_id
        /\ audit_logs = IF call.audit_fails
                        THEN pre.audit_logs
                        ELSE Append(pre.audit_logs, InvalidLevelRecord)

\* the super admin has asked for an object one level above TOP_SECRET and
\* the refusal is in the audit log
C11_Witness ==
    /\ InvalidLevelRequest
    /\ call.user_row[1].is_super_admin
    /\ call.security_level = 4
    /\ ret = False
    /\ audit_logs = <<InvalidLevelRecord>>

\* request_object_creation has inserted a row
CreateGranted ==
    /\ call.op = "create_object"
    /\ call.object_id \in DOMAIN objects
    /\ call.object_id \notin DOMAIN pre.objects

\* C12: on grant, request_object_creation persists the object and returns
\* the new object's id to the caller; a Python integer n is the value
\* <<ToString(n)>> here, as the booleans and None are <<"True">>,
\* <<"False">> and <<"None">>.
C12_CreateReturnsNewId ==
    CreateGranted =>
        /\ objects[call.object_id] = CreatedRow
        /\ ret = <<ToString(call.object_id)>>

\* what ObjectManager.read_object makes of None
ReadDenied == [access |-> "denied", message |-> "Read access denied or object not found"]

\* C13: for an existing subject, request_read_access returns one and the
\* same value, None, when the object does not exist and when it exists at a
\* level above the subject's, and ObjectManager.read_object turns both into
\* the same denial; so two runs that differ only in whether such an object
\* exists return the same result to the caller.
C13_ReadHidesExistence ==
    (call.op = "read_access" /\ call.user_row # << >>) =>
        /\ call.object_row = << >> => (ret = None /\ read_object(ret) = ReadDenied)
        /\ (call.object_row # << >> /\ ObjectLevel > SubjectLevel) =>
              (ret = None /\ read_object(ret) = ReadDenied)

\* a subject has asked for an existing object above its level and got None
C13_Witness ==
    /\ call.op = "read_access"
    /\ RowsLoaded
    /\ ObjectLevel > SubjectLevel
    /\ call.object_id \in DOMAIN objects
    /\ ret = None
    /\ read_object(ret) = ReadDenied

\* what a request on an object id that has no row returns: None from
\* request_read_access, False from the write and the delete request
NotFoundResult ==
    IF call.op = "read_access" THEN None ELSE False

\* C14: the results of a subject's requests are the same in two states that
\* differ only in the existence of an object above the subject's level.  A
\* request on an id without a row returns NotFoundResult whatever else the
\* database holds, so the claim says that a read, write or delete request on
\* an existing object above the subject's level returns that same value.
C14_HigherObjectsUnobservable ==
    (call.op \in {"read_access", "write_access", "delete_object"}
        /\ RowsLoaded /\ ObjectLevel > SubjectLevel) =>
        ret = NotFoundResult

\* the audit detail, a sequence of the f-string's pieces, holds the piece
Mentions(details, piece) == \E i \in DOMAIN details : details[i] = piece

\* the record the last request appended, when it appended one
LastRecord == audit_logs[Len(audit_logs)]

\* C15 (scenario A generalised), for a request whose audit INSERT does not
\* raise: request_read_access by a subject whose level is below the
\* object's level returns None and appends an audit record with
\* success = false whose detail mentions "No Read Up".
C15_ReadUpLoggedAsNoReadUp ==
    (call.op = "read_access" /\ RowsLoaded /\ SubjectLevel < ObjectLevel
        /\ ~call.audit_fails) =>
        /\ ret = None
        /\ Len(audit_logs) = Len(pre.audit_logs) + 1
        /\ LastRecord.success = FALSE
        /\ Mentions(LastRecord.details, " (No Read Up)")

\* a subject asks to write an object whose level is below its own
WriteDownRequest ==
    /\ call.op = "write_access"
    /\ RowsLoaded
    /\ SubjectLevel > ObjectLevel

\* the record request_write_access hands to log_event for a write down
WriteDownRecord ==
    AuditRecord(call.user_id, "write_access", call.object_id,
                <<"WRITE denied: ", LevelName(SubjectLevel), " cannot write to ",
                  LevelName(ObjectLevel), " (No Write Down)">>, FALSE)

\* C16 as stated (scenario B generalised): request_write_access by a subject
\* whose level is above the object's level returns False, leaves the content
\* unchanged, and appends an audit record with success = false whose detail
\* mentions "No Write Down".
C16_WriteDownDeniedAndLogged ==
    WriteDownRequest =>
        /\ ret = False
        /\ objects = pre.objects
        /\ audit_logs = Append(pre.audit_logs, WriteDownRecord)

\* C16 as amended: request_write_access by a subject whose level is above
\* the object's level returns False and leaves the content unchanged; it
\* appends one audit record with success = false whose detail ends in
\* "(No Write Down)", unless the INSERT of log_event raises, in which case
\* the audit log is left as it was.
C16_WriteDownDenied ==
    WriteDownRequest =>
        /\ ret = False
        /\ objects = pre.objects
        /\ audit_logs = IF call.audit_fails
                        THEN pre.audit_logs
                        ELSE Append(pre.audit_logs, WriteDownRecord)

\* a subject above the object's level has asked for a content the object
\* does not have; the object kept its content and the denial is logged
C16_Witness ==
    /\ WriteDownRequest
    /\ call.new_content # call.object_row[1].content
    /\ objects[call.object_id].content = call.object_row[1].content
    /\ ret = False
    /\ audit_logs = <<WriteDownRecord>>
    /\ Mentions(LastRecord.details, " (No Write Down)")

\* the operations of AccessManager, the listing included
AllMediatorOps == MediatorOps \cup {"list_objects"}

\* what each operation returns when it cannot go on
NotOkResult ==
    IF call.op = "read_access" THEN None
    ELSE IF call.op = "list_objects" THEN << >>
    ELSE False

\* C17 (scenario E), for a request whose audit INSERT does not raise: on any
\* AccessManager operation invoked with a subject id that does not resolve,
\* the outcome is not-found/not-ok, storage is unchanged, and exactly one
\* audit record is appended carrying the subject id as given and
\* success = false.
C17_UnknownSubjectLoggedOnce ==
    (call.op \in AllMediatorOps /\ call.user_row = << >>
        /\ (call.op \in MediatorOps => ~call.audit_fails)) =>
        /\ ret = NotOkResult
        /\ users = pre.users
        /\ objects = pre.objects
        /\ next_object_id = pre.next_object_id
        /\ Len(audit_logs) = Len(pre.audit_logs) + 1
        /\ LastRecord.user_id = call.user_id
        /\ LastRecord.success = FALSE

------------------------------------------------------------------------------
(* Repeated reads: one request_read_access, then the same request again *)

\* how often the read is issued in all
MaxRepeats == 3

FirstRead ==
    /\ calls = 0
    /\ calls' = 1
    /\ ReadCall
    /\ Track

RepeatRead ==
    /\ calls >= 1
    /\ calls < MaxRepeats
    /\ calls' = calls + 1
    /\ \E audit_fails \in BOOLEAN :
          request_read_access(call.user_id, call.object_id, audit_fails)
    /\ Track

RepeatNext ==
    \/ FirstRead
    \/ RepeatRead

SpecRepeat == Init /\ [][RepeatNext]_vars

\* the read before the last one
Previous == hist[Len(hist)]

\* C18 as stated: repeating request_read_access with the same arguments on
\* unchanged users and objects yields the same outcome every time, leaves
\* users and objects unchanged, and lengthens the audit log by exactly one
\* record per repetition.
C18_RepeatedReadOneRecordEach ==
    calls >= 1 =>
        /\ users = pre.users
        /\ objects = pre.objects
        /\ calls >= 2 => ret = Previous.ret
        /\ Len(audit_logs) = calls

\* C18 as amended: repeating request_read_access with the same arguments on
\* unchanged users and objects yields the same outcome every time and
\* leaves users and objects unchanged; each repetition lengthens the audit
\* log by exactly one record, equal to the one before it, unless the INSERT
\* of log_event raises, in which case that repetition appends nothing.
C18_RepeatedReadSameOutcome ==
    calls >= 1 =>
        /\ users = pre.users
        /\ objects = pre.objects
        /\ next_object_id = pre.next_object_id
        /\ calls >= 2 =>
              /\ call.user_id = Previous.call.user_id
              /\ call.object_id = Previous.call.object_id
              /\ ret = Previous.ret
        /\ IF call.audit_fails
           THEN audit_logs = pre.audit_logs
           ELSE /\ Len(audit_logs) = Len(pre.audit_logs) + 1
                /\ \A i \in 1..Len(audit_logs) : audit_logs[i] = LastRecord

\* the same granted read three times: the same name and content each time
\* and three equal records
C18_Witness ==
    /\ calls = 3
    /\ ret # None
    /\ ret = <<objects[call.object_id].name, objects[call.object_id].content>>
    /\ \A i \in 1..2 : hist[i].ret = ret
    /\ Len(audit_logs) = 3
    /\ LastRecord.success = TRUE

------------------------------------------------------------------------------
(* Round trip: a granted creation, at most one other call, then the creator
   reads the new object *)

\* a creation that is granted
RoundTripCreate ==
    /\ calls = 0
    /\ calls' = 1
    /\ CreateCall
    /\ ret' = True
    /\ Track

\* any one call by anybody
RoundTripBetween ==
    /\ calls = 1
    /\ calls' = 2
    /\ \/ ReadCall
       \/ WriteCall
       \/ CreateCall
       \/ DeleteCall
       \/ RegisterCall
       \/ ChangeLevelCall
       \/ ListCall
       \/ SearchCall
       \/ ByLevelCall
       \/ InfoCall
       \/ DeactivateCall
       \/ ActivateCall
       \/ LookupFaultCall
    /\ Track

\* the creator asks to read the object it created
RoundTripRead ==
    /\ calls \in {1, 2}
    /\ calls' = 3
    /\ LET creation == IF calls = 1 THEN call ELSE hist[1].call
       IN  \E audit_fails \in BOOLEAN :
              request_read_access(creation.user_id, creation.object_id, audit_fails)
    /\ Track

RoundTripNext ==
    \/ RoundTripCreate
    \/ RoundTripBetween
    \/ RoundTripRead

SpecRoundTrip == Init /\ [][RoundTripNext]_vars

\* the creation the round trip began with
Creation == hist[1].call

\* the creator has asked to read an object it created at its own level,
\* its level is what it was and the object has not been deleted
RoundTripDone ==
    /\ calls = 3
    /\ Creation.security_level = Creation.user_row[1].security_level
    /\ Creation.user_id \in DOMAIN users
    /\ users[Creation.user_id].security_level = Creation.user_row[1].security_level
    /\ Creation.object_id \in DOMAIN objects

\* the call between the creation and the read was a granted write
Rewritten ==
    /\ Len(hist) = 2
    /\ hist[2].call.op = "write_access"
    /\ hist[2].ret = True

\* C19 as stated: after a granted request_object_creation at a level equal
\* to the creating subject's level, a request_read_access of the new object
\* by that same subject (level unchanged, object not deleted) always
\* succeeds and returns the name and content that were created.
C19_RoundTripReturnsCreated ==
    RoundTripDone => ret = <<Creation.object_name, Creation.content>>

\* C19 as amended: after a granted request_object_creation at a level equal
\* to the creating subject's level, a request_read_access of the new object
\* by that same subject (level unchanged, object not deleted) always
\* succeeds and returns the name that was created and the stored content,
\* which is the content that was created unless a granted
\* request_write_access has replaced it since.
C19_RoundTripReturnsStored ==
    RoundTripDone =>
        /\ ret = <<Creation.object_name, objects[Creation.object_id].content>>
        /\ ~Rewritten => ret = <<Creation.object_name, Creation.content>>

\* an ordinary subject has created an object at its own level, somebody has
\* made another call, and the subject has read back what it created
C19_Witness ==
    /\ RoundTripDone
    /\ Len(hist) = 2
    /\ ~Creation.user_row[1].is_super_admin
    /\ ret = <<Creation.object_name, Creation.content>>

------------------------------------------------------------------------------
(* The listing on databases with several objects *)

\* how many objects the listed databases have had created
MaxListed == 3

ListNames == {NamesAscending[i] : i \in DOMAIN NamesAscending}

\* objects the super admin (id 1) has created: any name, any defined level
ListedRows ==
    [name : ListNames, content : {"c0"},
     security_level : DOMAIN SECURITY_LEVELS, owner_id : {1}]

\* the databases the listing is run on: any users table, and objects the
\* super admin created, some of them deleted again
ListInit ==
    /\ users \in UserTables
    /\ next_object_id \in 1..(MaxListed + 1)
    /\ objects \in UNION {[ids -> ListedRows] : ids \in SUBSET (1..(next_object_id - 1))}
    /\ audit_logs = << >>
    /\ calls = 0
    /\ call = [op |-> "none"]
    /\ ret = NoCall
    /\ pre = Tables
    /\ hist = << >>
    /\ pol = PolIdle

ListObjects ==
    /\ calls = 0
    /\ calls' = 1
    /\ ListCall
    /\ Track

ListNext == ListObjects

SpecList == ListInit /\ [][ListNext]_vars

\* C20: get_accessible_objects(user) returns exactly the stored objects
\* whose level is <= the subject's stored level, each once and with its
\* stored id, name, level and owner, ordered by descending level and, within
\* a level, by ascending name; for an unknown subject id it returns the
\* empty sequence.
C20_ListingExactAndOrdered ==
    call.op = "list_objects" =>
        IF call.user_id \notin DOMAIN users
        THEN ret = << >>
        ELSE LET level == users[call.user_id].security_level
                 shown == {ret[i].id : i \in DOMAIN ret}
             IN  /\ shown = {id \in DOMAIN objects : objects[id].security_level <= level}
                 /\ Len(ret) = Cardinality(shown)
                 /\ \A i \in DOMAIN ret :
                       /\ ret[i].name = objects[ret[i].id].name
                       /\ ret[i].security_level = objects[ret[i].id].security_level
                       /\ ret[i].owner_id = objects[ret[i].id].owner_id
                 /\ \A i, j \in DOMAIN ret :
                       i < j =>
                          \/ ret[i].security_level > ret[j].security_level
                          \/ /\ ret[i].security_level = ret[j].security_level
                             /\ NameRank(ret[i].name) <= NameRank(ret[j].name)

\* of three stored objects one is above the subject's level and is left
\* out; the two listed have the same level and stand in the order of their
\* names, against the order of their ids
C20_Witness ==
    /\ call.op = "list_objects"
    /\ Cardinality(DOMAIN objects) = 3
    /\ Len(ret) = 2
    /\ ret[1].security_level = ret[2].security_level
    /\ ret[1].name = "doc"
    /\ ret[2].name = "memo"
    /\ ret[1].id > ret[2].id

------------------------------------------------------------------------------
(* The Object Directory on databases with several objects *)

DirectoryNext ==
    \/ Search
    \/ ByLevel
    \/ Info

SpecDirectory == ListInit /\ [][DirectoryNext]_vars

DirectoryOps == {"search_objects", "get_objects_by_level", "get_object_info"}

\* C21: search_objects, get_objects_by_level and get_object_info never
\* return an object whose level is above the requesting subject's stored
\* level, for any search term or requested level.
C21_DirectoryNeverShowsHigher ==
    (call.op \in DirectoryOps /\ call.user_row # << >>) =>
        LET level == users[call.user_id].security_level IN
        IF call.op = "get_object_info"
        THEN ret # None =>
                /\ objects[call.object_id].security_level <= level
                /\ ret = <<objects[call.object_id].name,
                           objects[call.object_id].security_level,
                           objects[call.object_id].owner_id>>
        ELSE \A i \in DOMAIN ret :
                /\ ret[i].id \in DOMAIN objects
                /\ objects[ret[i].id].security_level <= level
                /\ ret[i].name = objects[ret[i].id].name

\* a search by substring has matched an object above the subject's level
\* and one within it, and has returned only the latter
C21_Witness ==
    /\ call.op = "search_objects"
    /\ call.search_term = "o"
    /\ call.user_row # << >>
    /\ Len(ret) = 1
    /\ \E id \in DOMAIN objects :
          /\ objects[id].security_level > users[call.user_id].security_level
          /\ objects[id].name = ret[1].name

------------------------------------------------------------------------------
(* Claims about auditing and faults                        (checked under Spec) *)

\* C22: get_accessible_objects, being one of the AccessManager's public
\* operations, appends exactly one audit record per call, for known and
\* for unknown subjects.
C22_ListingAuditedOnce ==
    call.op = "list_objects" => Len(audit_logs) = Len(pre.audit_logs) + 1

\* the UPDATE or the commit of a write the policy permits has raised
WriteStorageFailure ==
    /\ call.op = "write_access"
    /\ RowsLoaded
    /\ SubjectLevel <= ObjectLevel
    /\ call.mutation_fails

\* the record request_write_access hands to log_event in its except branch
WriteStorageRecord ==
    AuditRecord(call.user_id, "write_access", call.object_id,
                <<"Database error: ", StorageError>>, FALSE)

\* the details request_write_access logs for a denial or a missing row
WriteDenialDetails ==
    {<<"User or object not found">>}
        \cup {get_access_description(u, o, "write") : u, o \in DefinedLevels}

\* C23 as stated: when the UPDATE or commit of a policy-granted write
\* fails, request_write_access returns False, appends one audit record with
\* success = false carrying a storage-error detail distinct from any
\* policy-denial detail, leaves the content unchanged, and does not retry.
C23_WriteFailureLogged ==
    WriteStorageFailure =>
        /\ ret = False
        /\ objects = pre.objects
        /\ audit_logs = Append(pre.audit_logs, WriteStorageRecord)
        /\ WriteStorageRecord.details \notin WriteDenialDetails

\* C23 as amended: when the UPDATE or commit of a policy-granted write
\* fails, request_write_access returns False and leaves the content
\* unchanged (the failed mutation is not applied by a second attempt); it
\* appends one audit record with success = false whose detail,
\* "Database error: <e>", differs from every policy-denial detail, unless the
\* INSERT of log_event raises as well, in which case nothing is appended.
C23_WriteFailureSurfaces ==
    WriteStorageFailure =>
        /\ ret = False
        /\ objects = pre.objects
        /\ audit_logs = IF call.audit_fails
                        THEN pre.audit_logs
                        ELSE Append(pre.audit_logs, WriteStorageRecord)
        /\ WriteStorageRecord.details \notin WriteDenialDetails

\* a write up with a new content has failed in storage: the content is
\* the old one and the log holds the storage error
C23_Witness ==
    /\ WriteStorageFailure
    /\ SubjectLevel < ObjectLevel
    /\ call.new_content # call.object_row[1].content
    /\ objects[call.object_id].content = call.object_row[1].content
    /\ ret = False
    /\ audit_logs = <<WriteStorageRecord>>

\* C24: no error escapes an AccessManager operation as an uncaught fault:
\* every failure of the storage during a request, the failures of the
\* subject and object lookups included, is converted into a not-ok result
\* with an audit record.
C24_NoFaultEscapes ==
    call.op = "lookup_error" =>
        /\ ret \in {None, False}
        /\ Len(audit_logs) = Len(pre.audit_logs) + 1
        /\ LastRecord.success = FALSE

------------------------------------------------------------------------------
(* The granted path of a write, create or delete request, statement by
   statement: another connection can read the tables between the commit and
   the INSERT of log_event *)

\* the statements of the try block after the policy has granted, with
\* log_event first
granted_steps_log_first == <<"log_event", "commit">>

\* the statements of the try block after the policy has granted: execute
\* and commit the mutation, then log_event
granted_steps == <<"commit", "log_event">>

\* the policy has granted a write: the try block is entered
begin_write(user_id, object_id, new_content) ==
    LET user_row == fetchone(users, user_id)
        object_row == fetchone(objects, object_id)
    IN
    /\ write_outcome(user_row, object_row, FALSE) = "granted"
    /\ call' = [op |-> "write_access", user_id |-> user_id, object_id |-> object_id,
                object_name |-> object_row[1].name, content |-> new_content,
                security_level |-> object_row[1].security_level,
                owner_id |-> object_row[1].owner_id,
                details |-> get_access_description(user_row[1].security_level,
                                                   object_row[1].security_level, "write"),
                done |-> 0]

begin_create(user_id, object_name, content, security_level) ==
    LET user_row == fetchone(users, user_id) IN
    /\ create_outcome(user_row, security_level, FALSE) = "granted"
    /\ next_object_id <= MaxObjects
    /\ call' = [op |-> "create_object", user_id |-> user_id, object_id |-> next_object_id,
                object_name |-> object_name, content |-> content,
                security_level |-> security_level, owner_id |-> user_id,
                details |-> <<"Object created with level: ", ToString(security_level)>>,
                done |-> 0]

begin_delete(user_id, object_id) ==
    LET user_row == fetchone(users, user_id)
        object_row == fetchone(objects, object_id)
    IN
    /\ delete_outcome(user_id, user_row, object_row, FALSE) = "granted"
    /\ call' = [op |-> "delete_object", user_id |-> user_id, object_id |-> object_id,
                object_name |-> object_row[1].name, content |-> object_row[1].content,
                security_level |-> object_row[1].security_level,
                owner_id |-> object_row[1].owner_id,
                details |-> <<"Object deleted successfully">>,
                done |-> 0]

BeginGranted ==
    /\ calls = 0
    /\ calls' = 1
    /\ \/ \E user_id \in UserIds, object_id \in ObjectIds, new_content \in Contents :
             begin_write(user_id, object_id, new_content)
       \/ \E user_id \in UserIds, object_name \in ObjectNames, content \in Contents,
             security_level \in LevelInputs :
             begin_create(user_id, object_name, content, security_level)
       \/ \E user_id \in UserIds, object_id \in ObjectIds :
             begin_delete(user_id, object_id)
    /\ ret' = NoCall
    /\ Track
    /\ UNCHANGED <<users, objects, next_object_id, audit_logs, pol>>

\* cursor.execute(UPDATE / INSERT / DELETE) and conn.commit()
CommitMutation ==
    /\ calls = 1
    /\ call.done < Len(granted_steps)
    /\ granted_steps[call.done + 1] = "commit"
    /\ IF call.op = "write_access"
       THEN /\ objects' = [objects EXCEPT ![call.object_id].content = call.content]
            /\ UNCHANGED next_object_id
       ELSE IF call.op = "create_object"
       THEN /\ objects' = objects @@
                   (call.object_id :>
                       [name |-> call.object_name, content |-> call.content,
                        security_level |-> call.security_level,
                        owner_id |-> call.owner_id])
            /\ next_object_id' = next_object_id + 1
       ELSE /\ objects' = [id \in DOMAIN objects \ {call.object_id} |-> objects[id]]
            /\ UNCHANGED next_object_id
    /\ call' = [call EXCEPT !.done = @ + 1]
    /\ ret' = IF call.done + 1 = Len(granted_steps) THEN True ELSE ret
    /\ UNCHANGED <<users, audit_logs, calls, pre, hist, pol>>

\* log_event(user_id, event_type, object_id, details, True)
LogGranted ==
    /\ calls = 1
    /\ call.done < Len(granted_steps)
    /\ granted_steps[call.done + 1] = "log_event"
    /\ \E audit_fails \in BOOLEAN :
          log_event(call.user_id, call.op, call.object_id, call.details, TRUE, audit_fails)
    /\ call' = [call EXCEPT !.done = @ + 1]
    /\ ret' = IF call.done + 1 = Len(granted_steps) THEN True ELSE ret
    /\ UNCHANGED <<users, objects, next_object_id, calls, pre, hist, pol>>

OrderNext ==
    \/ BeginGranted
    \/ CommitMutation
    \/ LogGranted

SpecOrder == Init /\ [][OrderNext]_vars

\* the success record of the request in progress is in the audit log
SuccessRecordVisible ==
    /\ calls = 1
    /\ Len(audit_logs) = Len(pre.audit_logs) + 1
    /\ LastRecord.success = TRUE
    /\ LastRecord.event_type = call.op
    /\ LastRecord.object_id = call.object_id

\* the tables hold the committed mutation of the request in progress
MutationApplied ==
    IF call.op = "delete_object"
    THEN call.object_id \notin DOMAIN objects
    ELSE /\ call.object_id \in DOMAIN objects
         /\ objects[call.object_id] =
                [name |-> call.object_name, content |-> call.content,
                 security_level |-> call.security_level, owner_id |-> call.owner_id]

\* C25 (audit ordering): within a write, create or delete request the
\* success audit record is in the log only after the mutation has been
\* committed; in no reachable state does a success record of a mutation
\* exist while the mutation is not applied.
C25_SuccessRecordAfterCommit ==
    SuccessRecordVisible => MutationApplied

\* the mutation is committed and not yet logged, the state another
\* connection can read between the two statements ...
CommittedNotLogged ==
    /\ calls = 1
    /\ call.done = 1
    /\ MutationApplied
    /\ audit_logs = pre.audit_logs
    /\ objects # pre.objects

\* ... and then the granted delete has logged its success, the row being gone
C25_Witness ==
    /\ SuccessRecordVisible
    /\ call.op = "delete_object"
    /\ call.done = 2
    /\ call.object_id \in DOMAIN pre.objects
    /\ call.object_id \notin DOMAIN objects
    /\ ret = True

\* Whether the request is granted, from the tables it started on and its
\* arguments other than audit_fails
ExpectedGranted ==
    LET u == call.user_id
        o == call.object_id
    IN
    /\ u \in DOMAIN pre.users
    /\ IF call.op = "create_object"
       THEN /\ call.security_level \in DefinedLevels
            /\ \/ pre.users[u].is_super_admin
               \/ call.security_level <= pre.users[u].security_level
            /\ ~call.mutation_fails
       ELSE /\ o \in DOMAIN pre.objects
            /\ IF call.op = "read_access"
               THEN pre.users[u].security_level >= pre.objects[o].security_level
               ELSE IF call.op = "write_access"
               THEN /\ pre.users[u].security_level <= pre.objects[o].security_level
                    /\ ~call.mutation_fails
               ELSE /\ \/ pre.users[u].is_super_admin /\ pre.users[u].security_level = 3
                       \/ /\ pre.objects[o].owner_id = u
                          /\ pre.users[u].security_level = pre.objects[o].security_level
                    /\ ~call.mutation_fails

\* the value returned, from the same
ExpectedResult ==
    IF call.op = "read_access"
    THEN IF ExpectedGranted
         THEN <<pre.objects[call.object_id].name, pre.objects[call.object_id].content>>
         ELSE None
    ELSE IF ExpectedGranted THEN True ELSE False

\* the objects table left behind, from the same
ExpectedObjects ==
    IF ~ExpectedGranted \/ call.op = "read_access"
    THEN pre.objects
    ELSE IF call.op = "write_access"
    THEN [pre.objects EXCEPT ![call.object_id].content = call.new_content]
    ELSE IF call.op = "create_object"
    THEN pre.objects @@ (call.object_id :> CreatedRow)
    ELSE [id \in DOMAIN pre.objects \ {call.object_id} |-> pre.objects[id]]

\* C26: a failure of the audit append never changes the access outcome: the
\* value a request returns and the tables it leaves are determined by the
\* tables it started on and by its arguments and the storage's answer to
\* its mutation, and are the same whether the INSERT of log_event succeeds
\* or fails; neither is a denial turned into a grant nor a grant into a
\* denial.
C26_AuditFailureKeepsOutcome ==
    call.op \in MediatorOps =>
        /\ ret = ExpectedResult
        /\ objects = ExpectedObjects
        /\ users = pre.users
        /\ next_object_id = pre.next_object_id
                               + (IF call.op = "create_object" /\ ExpectedGranted THEN 1 ELSE 0)

\* a write whose audit INSERT failed is granted all the same: the content
\* is replaced, True is returned and the log has no record of it
C26_Witness ==
    /\ call.op = "write_access"
    /\ call.audit_fails
    /\ ret = True
    /\ call.new_content # pre.objects[call.object_id].content
    /\ objects[call.object_id].content = call.new_content
    /\ audit_logs = pre.audit_logs

------------------------------------------------------------------------------
(* Claims about what the operations leave alone *)

\* sequence s is the beginning of sequence t
IsPrefix(s, t) ==
    /\ Len(s) <= Len(t)
    /\ \A i \in 1..Len(s) : s[i] = t[i]

\* C27: the audit log is append-only: no operation (the AccessManager's
\* requests, the directory views, registration, level change,
\* deactivation and activation, object deletion included) modifies or
\* removes an existing audit record; the log after an operation has the log
\* before it as a prefix and is at most one record longer.
C27_AuditLogAppendOnly ==
    /\ IsPrefix(pre.audit_logs, audit_logs)
    /\ Len(audit_logs) <= Len(pre.audit_logs) + 1

\* an object was created, then deleted, then asked for: the record of its
\* creation is still the first of three
C27_Witness ==
    /\ calls = 3
    /\ Len(hist) = 2
    /\ hist[2].call.op = "delete_object"
    /\ hist[2].ret = True
    /\ Len(audit_logs) = 3
    /\ audit_logs[1].event_type = "create_object"
    /\ audit_logs[1].object_id = hist[2].call.object_id
    /\ audit_logs[1].object_id \notin DOMAIN objects

\* C28 (level invariant): every stored subject's and every stored object's
\* security level is one of the defined levels 0..3.  The initial states
\* are the databases init_database starts on; after any operation the
\* tables are again among them, so the invariant carries over to every
\* sequence of registrations, level changes and creations.
C28_StoredLevelsDefined ==
    /\ \A id \in DOMAIN users : users[id].security_level \in DefinedLevels
    /\ \A id \in DOMAIN objects : objects[id].security_level \in DefinedLevels
    /\ users \in UserTables
    /\ objects \in ObjectTables(DOMAIN users, next_object_id)

\* the super admin has asked for level 4 for a subject and for nothing else,
\* and the users table is what it was
C28_Witness ==
    /\ call.op = "change_user_level"
    /\ call.new_level = 4
    /\ call.requester_id \in DOMAIN users
    /\ users[call.requester_id].is_super_admin
    /\ call.target_user_id \in DOMAIN users
    /\ ~call.mutation_fails
    /\ ret[1] = "False"
    /\ users = pre.users

\* C29: an object's security level and owner id (and its name) never change
\* after creation: every operation leaves them as they were for every
\* object that exists before and after it, and the content of an object
\* changes only through a request_write_access on that object which the
\* policy granted and which returned True.
C29_ObjectLevelAndOwnerFixed ==
    \A id \in DOMAIN pre.objects \cap DOMAIN objects :
        /\ objects[id].security_level = pre.objects[id].security_level
        /\ objects[id].owner_id = pre.objects[id].owner_id
        /\ objects[id].name = pre.objects[id].name
        /\ objects[id].content # pre.objects[id].content =>
              /\ call.op = "write_access"
              /\ call.object_id = id
              /\ objects[id].content = call.new_content
              /\ ret = True
              /\ call.user_id \in DOMAIN pre.users
              /\ pre.users[call.user_id].security_level <= pre.objects[id].security_level

\* a granted write by a subject that does not own the object has replaced
\* the content and nothing else
C29_Witness ==
    /\ call.op = "write_access"
    /\ ret = True
    /\ call.object_id \in DOMAIN objects
    /\ objects[call.object_id].content # pre.objects[call.object_id].content
    /\ objects[call.object_id] =
           [pre.objects[call.object_id] EXCEPT !.content = call.new_content]
    /\ objects[call.object_id].owner_id # call.user_id

\* C30: a subject's security level changes only through change_user_level
\* invoked by a requester that is a super admin: with any other requester
\* (not a super admin, or unknown) every subject's level stays as it was,
\* and no Mediator or Directory operation changes any subject's level or
\* super-admin flag.
C30_LevelChangedOnlyBySuperAdmin ==
    /\ \A id \in DOMAIN pre.users :
          /\ id \in DOMAIN users
          /\ users[id].is_super_admin = pre.users[id].is_super_admin
          /\ users[id].security_level # pre.users[id].security_level =>
                /\ call.op = "change_user_level"
                /\ call.requester_id \in DOMAIN pre.users
                /\ pre.users[call.requester_id].is_super_admin
                /\ call.target_user_id = id
                /\ users[id].security_level = call.new_level
                /\ ret[1] = "True"
    /\ call.op \in AllMediatorOps \cup DirectoryOps \cup {"lookup_error"} =>
          users = pre.users

\* a known subject that is not a super admin asked for a defined level that
\* differs from the target's level, and was turned away with nothing changed
C30_Witness ==
    /\ call.op = "change_user_level"
    /\ call.requester_id \in DOMAIN pre.users
    /\ ~pre.users[call.requester_id].is_super_admin
    /\ call.target_user_id \in DOMAIN pre.users
    /\ call.new_level \in DefinedLevels
    /\ call.new_level # pre.users[call.target_user_id].security_level
    /\ ret = <<"False", "Only super admin can change security levels">>
    /\ users = pre.users

\* the Policy Engine's verdict on the last Mediator request was false: the
\* rows were found (and the level asked for is a defined one) and the rule
\* of the operation refused
PolicyDenied ==
    \/ /\ call.op = "read_access" /\ RowsLoaded
       /\ ~check_read_access(SubjectLevel, ObjectLevel)
    \/ /\ call.op = "write_access" /\ RowsLoaded
       /\ ~check_write_access(SubjectLevel, ObjectLevel)
    \/ /\ call.op = "create_object" /\ call.user_row # << >>
       /\ validate_security_level(call.security_level)
       /\ ~(call.user_row[1].is_super_admin \/ call.security_level <= SubjectLevel)
    \/ /\ call.op = "delete_object" /\ RowsLoaded
       /\ ~check_delete_access(SubjectLevel, ObjectLevel,
                               call.user_id = call.object_row[1].owner_id,
                               call.user_row[1].is_super_admin)

\* the text get_access_description gives for the levels and the action of
\* the last request
DescribeDecision ==
    IF call.op = "read_access"
    THEN get_access_description(SubjectLevel, ObjectLevel, "read")
    ELSE IF call.op = "write_access"
    THEN get_access_description(SubjectLevel, ObjectLevel, "write")
    ELSE IF call.op = "create_object"
    THEN get_access_description(SubjectLevel, call.security_level, "create")
    ELSE get_access_description(SubjectLevel, ObjectLevel, "delete")

\* C31, for a request whose audit INSERT does not raise: whenever the
\* policy's verdict on a read, write, create or delete request is false,
\* the detail of the audit record the request appends is the text of
\* get_access_description for those levels and that action.
C31_DenialDetailIsDescription ==
    (PolicyDenied /\ ~call.audit_fails) =>
        /\ Len(audit_logs) = Len(pre.audit_logs) + 1
        /\ LastRecord.success = FALSE
        /\ LastRecord.details = DescribeDecision

\* the outcome of the last Mediator request: the return path it took, the
\* read refused by the existence check being a denial by policy; the listing
\* has two outcomes, the unknown subject and the rows fetched
Outcome ==
    IF call.op = "read_access"
    THEN IF read_outcome(call.user_row, call.object_row) = "hidden"
         THEN "denied"
         ELSE read_outcome(call.user_row, call.object_row)
    ELSE IF call.op = "write_access"
    THEN write_outcome(call.user_row, call.object_row, call.mutation_fails)
    ELSE IF call.op = "create_object"
    THEN create_outcome(call.user_row, call.security_level, call.mutation_fails)
    ELSE IF call.op = "delete_object"
    THEN delete_outcome(call.user_id, call.user_row, call.object_row,
                        call.mutation_fails)
    ELSE IF call.user_row = << >> THEN "not_found" ELSE "granted"

\* the outcome an audit detail stands for, read off its leading literal:
\* no two of the literals are equal or one a prefix of another, so a reader
\* of the log can tell the outcomes apart exactly when this recovers them
OutcomeOfDetail(details) ==
    IF details[1] \in {"READ granted: ", "WRITE granted: ",
                       "Object created with level: ", "Object deleted successfully"}
    THEN "granted"
    ELSE IF details[1] \in {"User or object not found", "User not found"}
    THEN "not_found"
    ELSE IF details[1] = "Invalid security level: "
    THEN "invalid_level"
    ELSE IF details[1] = "Database error: "
    THEN "storage_error"
    ELSE IF details[1] \in {"READ denied: ", "WRITE denied: ",
                            "Cannot view object existence - User level: ",
                            "Cannot create object at level ",
                            "Delete access denied - Owner: "}
    THEN "denied"
    ELSE "unknown"

\* C32, for a request whose audit INSERT does not raise: every Mediator
\* operation, the listing included, appends one audit record whose detail
\* tells which of granted, denied by policy, not found, invalid input and
\* storage failure the request ended in, while the value returned is the
\* same for every outcome other than granted.
C32_OutcomesToldApartInAudit ==
    (call.op \in AllMediatorOps
        /\ (call.op \in MediatorOps => ~call.audit_fails)) =>
        /\ Len(audit_logs) = Len(pre.audit_logs) + 1
        /\ OutcomeOfDetail(LastRecord.details) = Outcome
        /\ Outcome # "granted" => ret = NotOkResult

\* C33: whenever request_write_access, request_object_creation or
\* request_object_deletion returns False (not found, invalid level, policy
\* denial or storage failure), the users and objects tables and the next
\* object id are exactly as before the call; the audit log is the only
\* table that has changed, by the one record of the request (by none when
\* the INSERT of log_event raised).
C33_FailedRequestChangesNoTable ==
    (call.op \in {"write_access", "create_object", "delete_object"} /\ ret = False) =>
        /\ users = pre.users
        /\ objects = pre.objects
        /\ next_object_id = pre.next_object_id
        /\ Outcome \in {"not_found", "invalid_level", "denied", "storage_error"}
        /\ IF call.audit_fails
           THEN audit_logs = pre.audit_logs
           ELSE /\ Len(audit_logs) = Len(pre.audit_logs) + 1
                /\ IsPrefix(pre.audit_logs, audit_logs)
                /\ LastRecord.success = FALSE

\* the DELETE of a deletion the policy permits has raised: the request
\* returned False, the object is still there and the failure is logged
C33_Witness ==
    /\ call.op = "delete_object"
    /\ Outcome = "storage_error"
    /\ ret = False
    /\ call.object_id \in DOMAIN objects
    /\ objects = pre.objects
    /\ users = pre.users
    /\ Len(audit_logs) = Len(pre.audit_logs) + 1

------------------------------------------------------------------------------
(* Two console processes on one database file: each request is a sequence  *)
(* of SQL statements on its own connection, and the statements of two      *)
(* requests interleave. There is no BEGIN around the SELECTs and the       *)
(* mutation of a request, so another connection can commit between them.   *)

Sessions == {1, 2}

\* the session whose reads and writes are raced against, and the session
\* that deletes or changes a level meanwhile; either of them may delete
Subject == 1

Other == 2

\* the levels the racing change_user_level asks for: the lowest, the
\* highest, and one that is not a level
RaceLevels == {0, 3, 3 + LevelMargin}

\* a session that has not issued its request
Idle == [op |-> "none", pc |-> "idle"]

\* what a request hands to log_event and returns on the path it takes
Report(details, success, result) ==
    [details |-> details, success |-> success, result |-> result]

\* request_read_access after its two SELECTs: the detail, the flag and the
\* value of each return path, computed from the rows it fetched
read_report(user_row, object_row) ==
    LET outcome == read_outcome(user_row, object_row) IN
    IF outcome = "not_found"
    THEN Report(<<"User or object not found">>, FALSE, None)
    ELSE LET user_level == user_row[1].security_level
             object_level == object_row[1].security_level
         IN  IF outcome = "hidden"
             THEN Report(<<"Cannot view object existence - User level: ",
                           ToString(user_level), ", Object level: ",
                           ToString(object_level)>>, FALSE, None)
             ELSE IF outcome = "granted"
             THEN Report(get_access_description(user_level, object_level, "read"),
                         TRUE, <<object_row[1].name, object_row[1].content>>)
             ELSE Report(get_access_description(user_level, object_level, "read"),
                         FALSE, None)

\* request_write_access after its two SELECTs and, when the policy granted,
\* its UPDATE and commit
write_report(user_row, object_row, mutation_fails) ==
    LET outcome == write_outcome(user_row, object_row, mutation_fails) IN
    IF outcome = "not_found"
    THEN Report(<<"User or object not found">>, FALSE, False)
    ELSE IF outcome = "storage_error"
    THEN Report(<<"Database error: ", StorageError>>, FALSE, False)
    ELSE Report(get_access_description(user_row[1].security_level,
                                       object_row[1].security_level, "write"),
                outcome = "granted",
                IF outcome = "granted" THEN True ELSE False)

\* request_object_deletion after its two SELECTs and, when the policy
\* granted, its DELETE and commit
delete_report(user_id, user_row, object_row, mutation_fails) ==
    LET outcome == delete_outcome(user_id, user_row, object_row, mutation_fails) IN
    IF outcome = "not_found"
    THEN Report(<<"User or object not found">>, FALSE, False)
    ELSE IF outcome = "storage_error"
    THEN Report(<<"Database error: ", StorageError>>, FALSE, False)
    ELSE IF outcome = "granted"
    THEN Report(<<"Object deleted successfully">>, TRUE, True)
    ELSE Report(<<"Delete access denied - Owner: ",
                  BoolStr(user_id = object_row[1].owner_id),
                  ", Super Admin: ", FlagStr(user_row[1].is_super_admin)>>,
                FALSE, False)

\* the databases two sessions meet on, neither having issued a request:
\* every user registered and active, at any level, and the objects 1 to
\* MaxObjects stored with their first content
RaceInit ==
    /\ users \in {t \in UserTables :
                     /\ DOMAIN t = 1..Cardinality(Usernames)
                     /\ \A id \in DOMAIN t : t[id].is_active}
    /\ next_object_id = MaxObjects + 1
    /\ objects \in {t \in ObjectTables(DOMAIN users, next_object_id) :
                       /\ DOMAIN t = 1..MaxObjects
                       /\ \A id \in DOMAIN t : t[id].content = "c0"}
    /\ audit_logs = << >>
    /\ calls = 0
    /\ call = [s \in Sessions |-> Idle]
    /\ ret = [s \in Sessions |-> NoCall]
    /\ pre = Tables
    /\ hist = << >>
    /\ pol = PolIdle

\* session s moves on to the record r; nothing is stored
Proceed(s, r) ==
    /\ call' = [call EXCEPT ![s] = r]
    /\ UNCHANGED <<pre, hist, pol>>

\* session s issues a request: the SELECTs at the head of the method
Select(s, r) ==
    /\ call[s].pc = "idle"
    /\ calls' = calls + 1
    /\ Proceed(s, r)
    /\ UNCHANGED <<users, objects, next_object_id, audit_logs, ret>>

\* request_read_access, lines 28-32: the rows are fetched
read_select(s, user_id, object_id) ==
    Select(s, [op |-> "read_access", pc |-> "selected",
               user_id |-> user_id, object_id |-> object_id,
               user_row |-> fetchone(users, user_id),
               object_row |-> fetchone(objects, object_id)])

\* request_read_access, lines 34-59: the decision on the fetched rows, its
\* audit record and the return; stored_level is the subject's level in the
\* users table at this moment
read_return(s, audit_fails) ==
    LET r == call[s]
        report == read_report(r.user_row, r.object_row)
    IN
    /\ r.op = "read_access" /\ r.pc = "selected"
    /\ log_event(r.user_id, "read_access", r.object_id, report.details,
                 report.success, audit_fails)
    /\ ret' = [ret EXCEPT ![s] = report.result]
    /\ Proceed(s, [r EXCEPT !.pc = "returned"] @@
                  [stored_level |-> _get_user_security_level(r.user_id)])
    /\ UNCHANGED <<users, objects, next_object_id, calls>>

\* request_write_access, lines 70-74
write_select(s, user_id, object_id, new_content) ==
    Select(s, [op |-> "write_access", pc |-> "selected",
               user_id |-> user_id, object_id |-> object_id,
               new_content |-> new_content,
               user_row |-> fetchone(users, user_id),
               object_row |-> fetchone(objects, object_id),
               mutation_fails |-> FALSE, rowcount |-> 0])

\* request_write_access, lines 85-88, for rows the policy grants: UPDATE
\* objects SET content = ? WHERE id = ? changes the row with that id if
\* there is one and no row otherwise, and is committed either way; a
\* failing statement leaves the table as it is
write_update(s, mutation_fails) ==
    LET r == call[s] IN
    /\ r.op = "write_access" /\ r.pc = "selected"
    /\ write_outcome(r.user_row, r.object_row, FALSE) = "granted"
    /\ IF ~mutation_fails /\ r.object_id \in DOMAIN objects
       THEN objects' = [objects EXCEPT ![r.object_id].content = r.new_content]
       ELSE objects' = objects
    /\ Proceed(s, [r EXCEPT !.pc = "committed",
                            !.mutation_fails = mutation_fails,
                            !.rowcount = IF ~mutation_fails
                                            /\ r.object_id \in DOMAIN objects
                                         THEN 1 ELSE 0])
    /\ UNCHANGED <<users, next_object_id, audit_logs, ret, calls>>

\* request_write_access, lines 76-79 and 89-101: log_event and the return
write_return(s, audit_fails) ==
    LET r == call[s]
        report == write_report(r.user_row, r.object_row, r.mutation_fails)
    IN
    /\ r.op = "write_access"
    /\ \/ r.pc = "committed"
       \/ r.pc = "selected"
          /\ write_outcome(r.user_row, r.object_row, FALSE) # "granted"
    /\ log_event(r.user_id, "write_access", r.object_id, report.details,
                 report.success, audit_fails)
    /\ ret' = [ret EXCEPT ![s] = report.result]
    /\ Proceed(s, [r EXCEPT !.pc = "returned"])
    /\ UNCHANGED <<users, objects, next_object_id, calls>>

\* request_object_deletion, lines 161-165
delete_select(s, user_id, object_id) ==
    Select(s, [op |-> "delete_object", pc |-> "selected",
               user_id |-> user_id, object_id |-> object_id,
               user_row |-> fetchone(users, user_id),
               object_row |-> fetchone(objects, object_id),
               mutation_fails |-> FALSE, rowcount |-> 0])

\* request_object_deletion, lines 178-181, for rows the policy grants:
\* DELETE FROM objects WHERE id = ? removes the row with that id if there
\* is one and nothing otherwise, and is committed either way
delete_delete(s, mutation_fails) ==
    LET r == call[s] IN
    /\ r.op = "delete_object" /\ r.pc = "selected"
    /\ delete_outcome(r.user_id, r.user_row, r.object_row, FALSE) = "granted"
    /\ IF ~mutation_fails
       THEN objects' = [id \in DOMAIN objects \ {r.object_id} |-> objects[id]]
       ELSE objects' = objects
    /\ Proceed(s, [r EXCEPT !.pc = "committed",
                            !.mutation_fails = mutation_fails,
                            !.rowcount = IF ~mutation_fails
                                            /\ r.object_id \in DOMAIN objects
                                         THEN 1 ELSE 0])
    /\ UNCHANGED <<users, next_object_id, audit_logs, ret, calls>>

\* request_object_deletion, lines 167-170 and 182-193
delete_return(s, audit_fails) ==
    LET r == call[s]
        report == delete_report(r.user_id, r.user_row, r.object_row, r.mutation_fails)
    IN
    /\ r.op = "delete_object"
    /\ \/ r.pc = "committed"
       \/ r.pc = "selected"
          /\ delete_outcome(r.user_id, r.user_row, r.object_row, FALSE) # "granted"
    /\ log_event(r.user_id, "delete_object", r.object_id, report.details,
                 report.success, audit_fails)
    /\ ret' = [ret EXCEPT ![s] = report.result]
    /\ Proceed(s, [r EXCEPT !.pc = "returned"])
    /\ UNCHANGED <<users, objects, next_object_id, calls>>

\* change_user_level, lines 61-71: the three checks; refusal is the message
\* of the first one that fails, or empty when all pass
level_select(s, requester_id, target_user_id, new_level) ==
    Select(s, [op |-> "change_user_level", pc |-> "selected",
               requester_id |-> requester_id, target_user_id |-> target_user_id,
               new_level |-> new_level,
               refusal |-> IF ~_is_super_admin(requester_id)
                           THEN "Only super admin can change security levels"
                           ELSE IF new_level \notin DOMAIN SECURITY_LEVELS
                           THEN "Invalid security level"
                           ELSE IF target_user_id \notin DOMAIN users
                           THEN "Target user not found"
                           ELSE "",
               target_username |-> IF target_user_id \in DOMAIN users
                                   THEN users[target_user_id].username
                                   ELSE "",
               ok |-> FALSE])

\* change_user_security_level, lines 113-121: the UPDATE and its commit
level_update(s, mutation_fails) ==
    LET r == call[s]
        done == change_user_security_level(r.target_user_id, r.new_level, TRUE,
                                           mutation_fails)
    IN
    /\ r.op = "change_user_level" /\ r.pc = "selected" /\ r.refusal = ""
    /\ users' = done.users
    /\ Proceed(s, [r EXCEPT !.pc = "committed", !.ok = done.ok])
    /\ UNCHANGED <<objects, next_object_id, audit_logs, ret, calls>>

\* change_user_level, lines 62, 66, 71 and 76-83: the return, after the
\* audit record when the UPDATE was attempted
level_return(s, audit_fails) ==
    LET r == call[s] IN
    /\ r.op = "change_user_level"
    /\ IF r.pc = "committed"
       THEN /\ log_event(r.requester_id, "change_user_level", NoObject,
                         <<IF r.ok THEN "Changed " ELSE "Failed to change ",
                           r.target_username, " to level ", ToString(r.new_level)>>,
                         r.ok, audit_fails)
            /\ ret' = [ret EXCEPT ![s] =
                          IF r.ok THEN <<"True", "Security level changed">>
                          ELSE <<"False", "Failed to change security level">>]
       ELSE /\ r.pc = "selected" /\ r.refusal # ""
            /\ ~audit_fails
            /\ UNCHANGED audit_logs
            /\ ret' = [ret EXCEPT ![s] = <<"False", r.refusal>>]
    /\ Proceed(s, [r EXCEPT !.pc = "returned"])
    /\ UNCHANGED <<users, objects, next_object_id, calls>>

ReadSelect ==
    \E user_id \in UserIds, object_id \in ObjectIds :
        read_select(Subject, user_id, object_id)

ReadReturn ==
    \E s \in Sessions, audit_fails \in BOOLEAN : read_return(s, audit_fails)

WriteSelect ==
    \E user_id \in UserIds, object_id \in ObjectIds, new_content \in Contents :
        write_select(Subject, user_id, object_id, new_content)

WriteUpdate ==
    \E s \in Sessions, mutation_fails \in BOOLEAN : write_update(s, mutation_fails)

WriteReturn ==
    \E s \in Sessions, audit_fails \in BOOLEAN : write_return(s, audit_fails)

DeleteSelect ==
    \E s \in Sessions, user_id \in UserIds, object_id \in ObjectIds :
        delete_select(s, user_id, object_id)

DeleteDelete ==
    \E s \in Sessions, mutation_fails \in BOOLEAN : delete_delete(s, mutation_fails)

DeleteReturn ==
    \E s \in Sessions, audit_fails \in BOOLEAN : delete_return(s, audit_fails)

LevelSelect ==
    \E requester_id \in UserIds, target_user_id \in UserIds, new_level \in RaceLevels :
        level_select(Other, requester_id, target_user_id, new_level)

LevelUpdate ==
    \E s \in Sessions, mutation_fails \in BOOLEAN : level_update(s, mutation_fails)

LevelReturn ==
    \E s \in Sessions, audit_fails \in BOOLEAN : level_return(s, audit_fails)

RaceNext ==
    \/ ReadSelect
    \/ ReadReturn
    \/ WriteSelect
    \/ WriteUpdate
    \/ WriteReturn
    \/ DeleteSelect
    \/ DeleteDelete
    \/ DeleteReturn
    \/ LevelSelect
    \/ LevelUpdate
    \/ LevelReturn

SpecRace == RaceInit /\ [][RaceNext]_vars

------------------------------------------------------------------------------
(* Claims about interleaved requests                  (checked under SpecRace) *)

\* C34: under interleaving of request_write_access with a concurrent
\* request_object_deletion of the same object, a write that has returned
\* True has stored its content in an existing object row: its UPDATE
\* changed one row.
C34_SuccessfulWriteStored ==
    \A s \in Sessions :
        (call[s].op = "write_access" /\ ret[s] = True) => call[s].rowcount = 1

\* C35: among the request_object_deletion calls for one object id,
\* interleaved ones by authorised subjects included, at most one returns
\* True and at most one delete_object audit record with success = true is
\* written for that id.
C35_DeletedAtMostOnce ==
    /\ \A s, t \in Sessions :
          (/\ call[s].op = "delete_object" /\ call[t].op = "delete_object"
           /\ call[s].object_id = call[t].object_id
           /\ ret[s] = True /\ ret[t] = True) => s = t
    /\ \A id \in ObjectIds :
          Cardinality({i \in DOMAIN audit_logs :
                          /\ audit_logs[i].event_type = "delete_object"
                          /\ audit_logs[i].object_id = id
                          /\ audit_logs[i].success}) <= 1

\* C36: under interleaving of change_user_level with a request of the
\* affected subject, a read that returns content returns it to a subject
\* whose stored level, at the moment of the return, is not below the
\* object's level.
C36_ReadChecksLevelAtReturn ==
    \A s \in Sessions :
        (call[s].op = "read_access" /\ call[s].pc = "returned" /\ ret[s] # None) =>
            call[s].stored_level >= call[s].object_row[1].security_level

------------------------------------------------------------------------------
(* A console session: login, a level change committed meanwhile, and then  *)
(* a request of the logged-in subject                                       *)

\* auth.login_user with the right password: the user's id, name, level and
\* super-admin flag, or None when no active user has that name
login_user(username) ==
    LET ids == {id \in DOMAIN users :
                   users[id].username = username /\ users[id].is_active}
    IN  IF ids = {}
        THEN None
        ELSE LET id == CHOOSE i \in ids : TRUE
             IN  <<id, username, users[id].security_level, users[id].is_super_admin>>

\* ConsoleUI.handle_login: current_user is the tuple login_user returned
handle_login(username) ==
    /\ login_user(username) # None
    /\ call' = [op |-> "login", username |-> username]
    /\ ret' = login_user(username)
    /\ UNCHANGED <<users, objects, next_object_id, audit_logs, pol>>

SessionLogin ==
    /\ calls = 0
    /\ calls' = 1
    /\ \E username \in Usernames : handle_login(username)
    /\ Track

\* a change_user_level of the logged-in user, issued from another console,
\* that commits
SessionLevelChange ==
    /\ calls = 1
    /\ calls' = 2
    /\ \E requester_id \in UserIds, new_level \in LevelInputs,
          mutation_fails \in BOOLEAN, audit_fails \in BOOLEAN :
          change_user_level(requester_id, ret[1], new_level, mutation_fails, audit_fails)
    /\ ret'[1] = "True"
    /\ Track

\* the console passes current_user['id'] and nothing else of current_user
SessionRequest ==
    /\ calls = 2
    /\ calls' = 3
    /\ \/ ReadCall
       \/ WriteCall
       \/ CreateCall
       \/ DeleteCall
       \/ ListCall
       \/ SearchCall
       \/ ByLevelCall
       \/ InfoCall
    /\ call'.user_id = hist[1].ret[1]
    /\ Track

SessionNext ==
    \/ SessionLogin
    \/ SessionLevelChange
    \/ SessionRequest

SpecSession == Init /\ [][SessionNext]_vars

\* the session's request has returned, after a level change of its subject
\* that was committed
LevelChangedBeforeRequest ==
    /\ calls = 3
    /\ hist[2].ret[1] = "True"

\* the ids of the rows a listing or a search returned
ReturnedIds == {ret[i].id : i \in DOMAIN ret}

\* C37: once change_user_level has committed, a Mediator or Directory
\* request of that subject that starts afterwards is decided with the new
\* level, whatever level the console session captured at login: the
\* Mediator's result and effect are those for the stored level, and the
\* Directory returns the objects at or below it.
C37_DecidedWithStoredLevel ==
    LevelChangedBeforeRequest =>
        LET level == hist[2].call.new_level IN
        /\ pre.users[call.user_id].security_level = level
        /\ call.op \in MediatorOps =>
              /\ ret = ExpectedResult
              /\ objects = ExpectedObjects
        /\ call.op = "list_objects" =>
              ReturnedIds = {id \in DOMAIN objects : objects[id].security_level <= level}
        /\ call.op = "search_objects" =>
              ReturnedIds = search_ids(objects, call.search_term, level)
        /\ call.op = "get_objects_by_level" =>
              ReturnedIds = IF call.security_level > level
                            THEN {}
                            ELSE {id \in DOMAIN objects :
                                     objects[id].security_level = call.security_level}
        /\ call.op = "get_object_info" =>
              (ret # None <=> /\ call.object_id \in DOMAIN objects
                              /\ objects[call.object_id].security_level <= level)

\* the session logged in at a level that covers the object, the subject was
\* lowered below it meanwhile, and the search of the session no longer
\* returns the object
C37_Witness ==
    /\ LevelChangedBeforeRequest
    /\ call.op = "search_objects"
    /\ call.search_term = ""
    /\ ret = << >>
    /\ \E id \in DOMAIN objects :
          /\ objects[id].security_level <= hist[1].ret[3]
          /\ objects[id].security_level > hist[2].call.new_level

------------------------------------------------------------------------------
(* Claims about the audit detail and the Directory's unknown subject       *)
(*                                                   (checked under Spec)  *)

\* the leading literals of the texts get_access_description produces
GrantedTexts == {"READ granted: ", "WRITE granted: "}

DeniedTexts == {"READ denied: ", "WRITE denied: "}

\* C38: in every reachable state, every audit record of request_read_access
\* and request_write_access whose detail is a text of get_access_description
\* carries the flag the text speaks of: the detail says "granted" iff
\* success = true and "denied" iff success = false; and every record of
\* the two with success = true carries a "granted" text.
C38_DescriptionAgreesWithFlag ==
    \A i \in DOMAIN audit_logs :
        LET record == audit_logs[i] IN
        record.event_type \in {"read_access", "write_access"} =>
            /\ record.details[1] \in GrantedTexts => record.success
            /\ record.details[1] \in DeniedTexts => ~record.success
            /\ record.success => record.details[1] \in GrantedTexts

\* a read and a write at equal levels, where the description's >= and <=
\* are at their boundary, are logged as granted with success = true
C38_Witness ==
    /\ call.op \in {"read_access", "write_access"}
    /\ RowsLoaded
    /\ SubjectLevel = ObjectLevel
    /\ Len(audit_logs) = Len(pre.audit_logs) + 1
    /\ LastRecord.details[1] \in GrantedTexts
    /\ LastRecord.success

\* a subject id that does not resolve asks the Directory and the listing,
\* on the databases of the listing
UnknownSubject ==
    /\ calls = 0
    /\ calls' = 1
    /\ \/ SearchCall
       \/ ByLevelCall
       \/ InfoCall
       \/ ListCall
    /\ call'.user_row = << >>
    /\ Track

UnknownNext == UnknownSubject

SpecUnknown == ListInit /\ [][UnknownNext]_vars

\* the stored objects at level 0
PublicIds == {id \in DOMAIN objects : objects[id].security_level = 0}

\* C39: called with a subject id that does not resolve, search_objects
\* returns the matching objects of level 0 and no other, get_object_info
\* answers for the objects of level 0 and no other, get_objects_by_level
\* returns the objects of level 0 when asked for level 0 and nothing when
\* asked for another level, whereas get_accessible_objects returns the
\* empty list.
C39_UnknownSubjectIsPublic ==
    (calls = 1 /\ call.user_row = << >>) =>
        /\ call.op = "search_objects" =>
              ReturnedIds = {id \in PublicIds :
                                like(<<"%">> \o Spell[call.search_term] \o <<"%">>,
                                     Spell[objects[id].name])}
        /\ call.op = "get_object_info" =>
              IF call.object_id \in PublicIds
              THEN ret = <<objects[call.object_id].name, 0,
                           objects[call.object_id].owner_id>>
              ELSE ret = None
        /\ call.op = "get_objects_by_level" =>
              ReturnedIds = IF call.security_level = 0 THEN PublicIds ELSE {}
        /\ call.op = "list_objects" => ret = << >>

\* an unknown subject searches with the empty term on a database holding a
\* Public object and a higher one, and gets the Public one only
C39_Witness ==
    /\ calls = 1
    /\ call.op = "search_objects"
    /\ call.user_row = << >>
    /\ call.search_term = ""
    /\ Len(ret) = 1
    /\ ret[1].security_level = 0
    /\ \E id \in DOMAIN objects : objects[id].security_level > 0

\* the users who are super admins and active
ActiveSuperAdmins ==
    {id \in DOMAIN users : users[id].is_super_admin /\ users[id].is_active}

\* C40: in every state reachable from init_database through register_user,
\* activate_user, deactivate_user and change_user_level, at least one
\* active super admin exists. The users table stays among the tables that
\* start from the default super admin, which makes the statement hold
\* after every further call.
C40_ActiveSuperAdminExists ==
    /\ ActiveSuperAdmins # {}
    /\ users \in UserTables

\* the only super admin has asked to deactivate its own account and was
\* refused with the users table left as it was
C40_Witness ==
    /\ call.op = "deactivate_user"
    /\ call.requester_id = call.target_user_id
    /\ call.requester_id \in ActiveSuperAdmins
    /\ ret = <<"False", "Cannot deactivate your own account">>
    /\ users = pre.users
    /\ Cardinality(ActiveSuperAdmins) = 1

====
